---- MODULE Spec2Model ----
(***************************************************************************)
(* PeakForm: the Garmin cell converters, the week windows, the running,    *)
(* nutrition, strength and body composition analyzers and the signal       *)
(* detector, as state machines whose inputs are drawn from bounded sets.   *)
(*                                                                         *)
(* Conventions                                                             *)
(*   - a text cell is a sequence of one-character strings;                 *)
(*   - an Optional value is a tuple: <<>> is None, <<v>> is a present v;   *)
(*   - a float of the cell converters is a binary fixed-point integer in   *)
(*     units of 2^-FracBits (rounded to nearest, ties to even, at every    *)
(*     operation, as IEEE arithmetic rounds);                              *)
(*   - a float of the analyzers is an exact rational [n, d] with d > 0,    *)
(*     and [n |-> 0, d |-> 0] is NaN;                                      *)
(*   - a date is a day number; day 0 is Monday 2026-02-16; a missing date  *)
(*     (NaT) is <<>>, a present one <<day>>;                               *)
(*   - a table is a sequence of rows, a dict a sequence of <<key, value>>  *)
(*     pairs in insertion order.                                           *)
(***************************************************************************)
EXTENDS Integers, Sequences, FiniteSets, TLC

VARIABLES
    cell,            \* the raw cell handed to a converter (garmin.py)
    conv,            \* which converter has been applied to it ("" before any)
    parsed,          \* the converter's result
    shown,           \* format_pace(parsed), <<>> before it is called
    ref_date,        \* the reference date handed to week_of
    week,            \* week_of(ref_date), <<>> before it is called
    week_start,      \* the analyzers' week_start argument
    week_end,        \* the analyzers' week_end argument
    garmin_raw,      \* GarminData._raw: the parsed activity table
    run_windows,     \* the (w_start, w_end) pairs of the rolling loop, running.py
    running,         \* running.analyze's RunningAnalysis, <<>> before it is called
    mf_nutrition,    \* mf_data as nutrition.analyze reads it: targets and tables
    weekly_mileage,  \* nutrition.analyze's weekly_mileage argument
    nutrition,       \* nutrition.analyze's NutritionAnalysis, <<>> before
    mf_strength,     \* mf_data as strength.analyze reads it: the three tables
    strength_windows, \* the (w_start, w_end) pairs of the rolling loop, strength.py
    strength,        \* strength.analyze's StrengthAnalysis, <<>> before
    mf_body,         \* mf_data as body_comp.analyze reads it: the two tables
    avg_daily_deficit, \* body_comp.analyze's avg_daily_deficit argument
    body_comp,       \* body_comp.analyze's BodyCompAnalysis, <<>> before
    signals,         \* signals.detect's list, <<>> before it is called
    csv_rows,        \* the activity rows of the export, in file order
    loaded,          \* GarminData._load has returned: garmin_raw is set
    window_view      \* the frame a window view returned, <<>> before any call

parseVars == <<cell, conv, parsed, shown>>

weekVars == <<ref_date, week>>

argVars == <<week_start, week_end>>

runVars == <<garmin_raw, run_windows, running>>

nutVars == <<mf_nutrition, weekly_mileage, nutrition>>

strVars == <<mf_strength, strength_windows, strength>>

bodyVars == <<mf_body, avg_daily_deficit, body_comp>>

sigVars == <<signals>>

loadVars == <<csv_rows, loaded, window_view>>

vars == <<parseVars, weekVars, argVars, runVars, nutVars, strVars, bodyVars, sigVars, loadVars>>

notParse == <<weekVars, argVars, runVars, nutVars, strVars, bodyVars, sigVars, loadVars>>

notWeek == <<parseVars, argVars, runVars, nutVars, strVars, bodyVars, sigVars, loadVars>>

notRun == <<parseVars, weekVars, argVars, nutVars, strVars, bodyVars, sigVars, loadVars>>

notNut == <<parseVars, weekVars, argVars, runVars, strVars, bodyVars, sigVars, loadVars>>

notStr == <<parseVars, weekVars, argVars, runVars, nutVars, bodyVars, sigVars, loadVars>>

notBody == <<parseVars, weekVars, argVars, runVars, nutVars, strVars, sigVars, loadVars>>

notSig == <<parseVars, weekVars, argVars, runVars, nutVars, strVars, bodyVars, loadVars>>

notLoad == <<parseVars, weekVars, argVars, nutVars, strVars, bodyVars, sigVars>>

(***************************************************************************)
(* Bounds                                                                  *)
(***************************************************************************)
FracBits == 12       \* fractional bits of the fixed-point float
MaxMinutes == 12     \* largest minute count of a generated pace cell
MaxMinWidth == 2     \* minute digits are zero-padded up to this width
MaxTextLen == 3      \* longest arbitrary text cell
MaxDay == 30         \* reference dates range over -MaxDay..MaxDay
MaxStartShift == 1   \* the analysed week starts 0..MaxStartShift days after a Monday

(***************************************************************************)
(* Optional values                                                         *)
(***************************************************************************)
None == <<>>

Some(v) == <<v>>

IsSome(o) == o # <<>>

Val(o) == o[1]

(***************************************************************************)
(* Text                                                                    *)
(***************************************************************************)
DigitChars == <<"0", "1", "2", "3", "4", "5", "6", "7", "8", "9">>

Digits == {DigitChars[i] : i \in 1..10}

DigitVal(c) == (CHOOSE i \in 1..10 : DigitChars[i] = c) - 1

\* str.strip(): leading and trailing blanks removed
RECURSIVE LStrip(_)
LStrip(s) == IF s # <<>> /\ Head(s) = " " THEN LStrip(Tail(s)) ELSE s

RECURSIVE RStrip(_)
RStrip(s) ==
    IF s # <<>> /\ s[Len(s)] = " " THEN RStrip(SubSeq(s, 1, Len(s) - 1)) ELSE s

Strip(s) == RStrip(LStrip(s))

\* s.replace(",", "")
DropCommas(s) == SelectSeq(s, LAMBDA c : c # ",")

\* s.split(":")
RECURSIVE SplitColon(_, _)
SplitColon(s, cur) ==
    IF s = <<>> THEN <<cur>>
    ELSE IF Head(s) = ":" THEN <<cur>> \o SplitColon(Tail(s), <<>>)
    ELSE SplitColon(Tail(s), Append(cur, Head(s)))

AllDigits(s) == s # <<>> /\ \A i \in 1..Len(s) : s[i] \in Digits

RECURSIVE DigitsToInt(_, _)
DigitsToInt(s, acc) ==
    IF s = <<>> THEN acc ELSE DigitsToInt(Tail(s), 10 * acc + DigitVal(Head(s)))

RECURSIVE IntToDigits(_)
IntToDigits(n) ==
    IF n < 10 THEN <<DigitChars[n + 1]>>
    ELSE Append(IntToDigits(n \div 10), DigitChars[(n % 10) + 1])

RECURSIVE ZeroPad(_, _)
ZeroPad(s, w) == IF Len(s) >= w THEN s ELSE ZeroPad(<<"0">> \o s, w)

Pow10(k) == 10 ^ k

(***************************************************************************)
(* Floats of the converters                                                *)
(***************************************************************************)
One == 2 ^ FracBits

\* a / b rounded to the nearest integer, ties to even (b > 0)
RoundHalfEven(a, b) ==
    LET q == a \div b
        r == a % b
    IN  IF 2 * r < b THEN q
        ELSE IF 2 * r > b THEN q + 1
        ELSE IF q % 2 = 0 THEN q ELSE q + 1

NaN == [kind |-> "nan", val |-> 0]

Num(v) == [kind |-> "num", val |-> v]

ValueError == [kind |-> "ValueError", val |-> 0]

\* an optional leading sign: <<sign, rest>>
SignOf(s) ==
    IF s # <<>> /\ Head(s) = "-" THEN <<-1, Tail(s)>>
    ELSE IF s # <<>> /\ Head(s) = "+" THEN <<1, Tail(s)>>
    ELSE <<1, s>>

\* int(s) of a str: blanks stripped, an optional sign, decimal digits
PyInt(s) ==
    LET t == SignOf(Strip(s))
    IN  IF AllDigits(t[2]) THEN Num(t[1] * DigitsToInt(t[2], 0)) ELSE ValueError

\* position of the first "." of s, 0 when there is none
DotAt(s) ==
    IF \E i \in 1..Len(s) : s[i] = "."
    THEN CHOOSE i \in 1..Len(s) : s[i] = "." /\ \A j \in 1..(i - 1) : s[j] # "."
    ELSE 0

\* float(s) of a str: blanks stripped, an optional sign, then "nan" or a
\* decimal numeral (digits, digits., .digits, digits.digits); the value is
\* the nearest fixed-point number.  The cells generated hold no exponent,
\* underscore or "inf" characters.
PyFloat(s) ==
    LET t == SignOf(Strip(s))
        u == t[2]
        dot == DotAt(u)
        ip == IF dot = 0 THEN u ELSE SubSeq(u, 1, dot - 1)
        fp == IF dot = 0 THEN <<>> ELSE SubSeq(u, dot + 1, Len(u))
        okDigits(x) == x = <<>> \/ AllDigits(x)
    IN  IF u = <<"n", "a", "n">> THEN NaN
        ELSE IF okDigits(ip) /\ okDigits(fp) /\ (ip # <<>> \/ fp # <<>>)
        THEN Num(t[1] * RoundHalfEven(
                 (DigitsToInt(ip, 0) * Pow10(Len(fp)) + DigitsToInt(fp, 0)) * One,
                 Pow10(Len(fp))))
        ELSE ValueError

CatchNothing(r) == r

\* try: ... except ValueError: return np.nan
CatchValueError(r) == IF r.kind = "ValueError" THEN NaN ELSE r

(***************************************************************************)
(* garmin.py: the cell converters                                          *)
(***************************************************************************)
StrCell(s) == [kind |-> "str", s |-> s]

NoneCell == [kind |-> "None", s |-> <<>>]

FloatNanCell == [kind |-> "float_nan", s |-> <<>>]

\* str(value)
StrOf(value) ==
    IF value.kind = "str" THEN value.s
    ELSE IF value.kind = "float_nan" THEN <<"n", "a", "n">>
    ELSE <<"N", "o", "n", "e">>

\* value is None or (isinstance(value, float) and np.isnan(value))
IsNoneOrNan(value) == value.kind \in {"None", "float_nan"}

\* s in ("--", "", "nan")
IsSentinel(s) == s \in {<<"-", "-">>, <<>>, <<"n", "a", "n">>}

StripCommaNumeric(value) ==
    IF IsNoneOrNan(value) THEN NaN
    ELSE LET s == Strip(StrOf(value))
         IN  IF IsSentinel(s) THEN NaN
             ELSE CatchValueError(PyFloat(DropCommas(s)))

\* re.match(r"^(\d+):(\d{2})$", s)
PaceMatch(s) ==
    LET parts == SplitColon(s, <<>>)
    IN  /\ Len(parts) = 2
        /\ AllDigits(parts[1])
        /\ AllDigits(parts[2])
        /\ Len(parts[2]) = 2

PaceToDecimalMinutes(value) ==
    IF IsNoneOrNan(value) THEN NaN
    ELSE LET s == Strip(StrOf(value))
             parts == SplitColon(s, <<>>)
         IN  IF IsSentinel(s) THEN NaN
             ELSE IF PaceMatch(s)
             THEN LET minutes == DigitsToInt(parts[1], 0)
                      seconds == DigitsToInt(parts[2], 0)
                  IN  Num(minutes * One + RoundHalfEven(seconds * One, 60))
             ELSE CatchValueError(PyFloat(s))

DecimalMinutesToMmssTrunc(decimal_minutes) ==
    IF decimal_minutes.kind = "nan" THEN <<"-", "-">>
    ELSE LET total_seconds == (decimal_minutes.val * 60) \div One
             m == total_seconds \div 60
             s == total_seconds % 60
         IN  (IF m < 0 THEN <<"-">> \o IntToDigits(-m) ELSE IntToDigits(m))
                 \o <<":">> \o ZeroPad(IntToDigits(s), 2)

DecimalMinutesToMmss(decimal_minutes) ==
    IF decimal_minutes.kind = "nan" THEN <<"-", "-">>
    ELSE LET total_seconds == RoundHalfEven(decimal_minutes.val * 60, One)
             m == total_seconds \div 60
             s == total_seconds % 60
         IN  (IF m < 0 THEN <<"-">> \o IntToDigits(-m) ELSE IntToDigits(m))
                 \o <<":">> \o ZeroPad(IntToDigits(s), 2)

format_pace(decimal_minutes) == DecimalMinutesToMmss(decimal_minutes)

CleanGeneric(value) ==
    IF IsNoneOrNan(value) THEN NaN
    ELSE LET s == Strip(StrOf(value))
         IN  IF IsSentinel(s) THEN NaN ELSE CatchValueError(PyFloat(s))

PACE_COLS == {"avg_pace", "best_pace", "avg_gap"}

COMMA_NUMERIC_COLS ==
    {"calories", "total_ascent_ft", "total_descent_ft", "normalized_power", "avg_power"}

\* _load: the converter a column's cells go through, "" for the columns
\* left as read
ConverterOf(col) ==
    IF col \in PACE_COLS THEN "_pace_to_decimal_minutes"
    ELSE IF col \in COMMA_NUMERIC_COLS THEN "_strip_comma_numeric"
    ELSE IF col \in {"duration", "moving_time", "elapsed_time"} THEN "_parse_duration"
    ELSE IF col \in {"activity_type", "date", "title", "favorite"} THEN ""
    ELSE "_clean_generic"

\* a + b where either may already be a ValueError or a nan
FloatAdd(a, b) ==
    IF a.kind = "ValueError" \/ b.kind = "ValueError" THEN ValueError
    ELSE IF a.kind = "nan" \/ b.kind = "nan" THEN NaN
    ELSE Num(a.val + b.val)

\* int(x) * k as a float term of the sum
IntTimes(x, k) == IF x.kind = "num" THEN Num(x.val * k * One) ELSE x

ParseDuration(value) ==
    IF value.kind = "None" THEN NaN
    ELSE LET s == Strip(StrOf(value))
             parts == SplitColon(s, <<>>)
         IN  IF IsSentinel(s) THEN NaN
             ELSE CatchValueError(
                 IF Len(parts) = 3
                 THEN FloatAdd(FloatAdd(IntTimes(PyInt(parts[1]), 3600),
                                        IntTimes(PyInt(parts[2]), 60)),
                               PyFloat(parts[3]))
                 ELSE IF Len(parts) = 2
                 THEN FloatAdd(IntTimes(PyInt(parts[1]), 60), PyFloat(parts[2]))
                 ELSE PyFloat(s))

(***************************************************************************)
(* The cells handed to the converters                                      *)
(***************************************************************************)
TextAlphabet == {"-", "n", "a", "1", ":", ",", " ", "."}

TextCells ==
    UNION {[1..n -> TextAlphabet] : n \in 0..MaxTextLen}

\* minute digits ":" two second digits, seconds in 00..59
PaceCells ==
    {ZeroPad(IntToDigits(m), w) \o <<":">> \o ZeroPad(IntToDigits(s), 2) :
        m \in 0..MaxMinutes, w \in 1..MaxMinWidth, s \in 0..59}

\* cells with a thousands separator
CommaCells ==
    {<<"8", ",", "9", "8", "0">>, <<"1", ",", "1", "1", "1">>,
     <<"1", ",", "2", "3", "4", ".", "5">>}

Cells ==
    {StrCell(s) : s \in TextCells \cup PaceCells \cup CommaCells}
        \cup {NoneCell, FloatNanCell}

ParseStart == cell \in Cells /\ conv = "" /\ parsed = None /\ shown = None

ParseIdle == cell = NoneCell /\ conv = "idle" /\ parsed = None /\ shown = None

ApplyStripCommaNumeric ==
    /\ conv = ""
    /\ conv' = "_strip_comma_numeric"
    /\ parsed' = Some(StripCommaNumeric(cell))
    /\ UNCHANGED <<cell, shown, notParse>>

ApplyPaceToDecimalMinutes ==
    /\ conv = ""
    /\ conv' = "_pace_to_decimal_minutes"
    /\ parsed' = Some(PaceToDecimalMinutes(cell))
    /\ UNCHANGED <<cell, shown, notParse>>

ApplyCleanGeneric ==
    /\ conv = ""
    /\ conv' = "_clean_generic"
    /\ parsed' = Some(CleanGeneric(cell))
    /\ UNCHANGED <<cell, shown, notParse>>

ApplyParseDuration ==
    /\ conv = ""
    /\ conv' = "_parse_duration"
    /\ parsed' = Some(ParseDuration(cell))
    /\ UNCHANGED <<cell, shown, notParse>>

\* the report formatter displays a parsed pace
FormatPace ==
    /\ conv = "_pace_to_decimal_minutes"
    /\ shown = None
    /\ shown' = Some(format_pace(Val(parsed)))
    /\ UNCHANGED <<cell, conv, parsed, notParse>>

NextParse ==
    \/ ApplyStripCommaNumeric
    \/ ApplyPaceToDecimalMinutes
    \/ ApplyCleanGeneric
    \/ ApplyParseDuration
    \/ FormatPace

(***************************************************************************)
(* Floats of the analyzers: exact rationals                                *)
(***************************************************************************)
Abs(x) == IF x < 0 THEN -x ELSE x

RECURSIVE GCD(_, _)
GCD(a, b) == IF b = 0 THEN a ELSE GCD(b, a % b)

\* n / d in lowest terms, d > 0
Rat(n, d) ==
    LET g == GCD(Abs(n), Abs(d))
        s == IF d < 0 THEN -1 ELSE 1
    IN  [n |-> (s * n) \div g, d |-> (s * d) \div g]

R(n) == [n |-> n, d |-> 1]

NaNRat == [n |-> 0, d |-> 0]

IsNaN(a) == a.d = 0

RatAdd(a, b) == Rat(a.n * b.d + b.n * a.d, a.d * b.d)

RatSub(a, b) == Rat(a.n * b.d - b.n * a.d, a.d * b.d)

RatMul(a, b) == Rat(a.n * b.n, a.d * b.d)

\* a / b, b nonzero
RatDiv(a, b) == Rat(a.n * b.d, a.d * b.n)

\* comparisons; one with NaN is False
RatLT(a, b) == ~IsNaN(a) /\ ~IsNaN(b) /\ a.n * b.d < b.n * a.d

RatGT(a, b) == RatLT(b, a)

RatLE(a, b) == ~IsNaN(a) /\ ~IsNaN(b) /\ a.n * b.d <= b.n * a.d

RatGE(a, b) == RatLE(b, a)

RatAbs(a) == [n |-> Abs(a.n), d |-> a.d]

\* bool(x) of a float: zero is false, NaN is true
Truthy(a) == a.n # 0 \/ IsNaN(a)

\* bool(x) of an Optional[float]
OptTruthy(o) == IsSome(o) /\ Truthy(Val(o))

\* Series.dropna() of a sequence of Optional floats (None and NaN both dropped)
RECURSIVE DropNa(_)
DropNa(s) ==
    IF s = <<>> THEN <<>>
    ELSE IF IsSome(Head(s)) /\ ~IsNaN(Val(Head(s)))
    THEN <<Val(Head(s))>> \o DropNa(Tail(s))
    ELSE DropNa(Tail(s))

RECURSIVE RatSum(_)
RatSum(s) == IF s = <<>> THEN R(0) ELSE RatAdd(Head(s), RatSum(Tail(s)))

RECURSIVE RatMax(_)
RatMax(s) ==
    IF Len(s) = 1 THEN Head(s)
    ELSE LET m == RatMax(Tail(s)) IN IF RatGT(Head(s), m) THEN Head(s) ELSE m

\* Series.mean() of a non-empty sequence of floats
Mean(s) == RatDiv(RatSum(s), R(Len(s)))

\* Series.sum(skipna=True): 0.0 when every cell is missing
SumSkipNa(cells) == RatSum(DropNa(cells))

\* Series.max(): NaN when every cell is missing
MaxSkipNa(cells) ==
    IF DropNa(cells) = <<>> THEN NaNRat ELSE RatMax(DropNa(cells))

\* rounding with a tie going up
PyRoundHalfUp(a) == (2 * a.n + a.d) \div (2 * a.d)

\* Python round(x) of a float to an int: nearest, ties to even
PyRound(a) == RoundHalfEven(a.n, a.d)

\* the sequence <<f(s[1]), ..., f(s[n])>>
Map(s, f(_)) == [i \in 1..Len(s) |-> f(s[i])]

(***************************************************************************)
(* Week windowing                                                          *)
(***************************************************************************)
\* date.weekday(): Monday is 0
Weekday(d) == d % 7

\* start is the Monday at or before the reference date, end is start + 6
WeekOfTruncating(d) ==
    LET r == IF d < 0 THEN 0 - ((0 - d) % 7) ELSE d % 7
    IN  <<d - r, d - r + 6>>

week_of(d) ==
    LET start == d - Weekday(d)
    IN  <<start, start + 6>>

RefDates == (0 - MaxDay)..MaxDay

WeekStart == ref_date \in RefDates /\ week = None

WeekIdle == ref_date = 0 /\ week = None

WeekOf ==
    /\ week = None
    /\ week' = Some(week_of(ref_date))
    /\ UNCHANGED <<ref_date, notWeek>>

\* the mask with the end day left out
InWindowBeforeEnd(row, start, end) ==
    IsSome(row.date) /\ Val(row.date) >= start /\ Val(row.date) < end

\* the inclusive date mask (df["date"] >= start) & (df["date"] <= end); a
\* missing date compares False
InWindow(row, start, end) ==
    IsSome(row.date) /\ Val(row.date) >= start /\ Val(row.date) <= end

\* df[(df["date"] >= start) & (df["date"] <= end)]
WeekSlice(df, start, end) == SelectSeq(df, LAMBDA row : InWindow(row, start, end))

(***************************************************************************)
(* config.py                                                               *)
(***************************************************************************)
TRAIL_RUN_ASCENT_FT == 500

MILEAGE_OVERREACH_PCT == Rat(1, 10)

BODY_BATTERY_DRAIN_CONCERN == 15

GROUND_CONTACT_CONCERN_MS == 5

RUNNING_ACTIVITY_TYPES == {"Running", "Treadmill Running", "Trail Running"}

(***************************************************************************)
(* garmin.py: the parsed activity table                                    *)
(***************************************************************************)
\* the row with is_trail for an ascent of 500 ft as well
ActivityRowAtLeast(type, date, dist, ascent, pace, hr, cad, te, gct, bbd) ==
    [activity_type |-> type,
     date |-> date,
     distance_mi |-> dist,
     total_ascent_ft |-> ascent,
     is_trail |-> IsSome(ascent) /\ RatGE(Val(ascent), R(TRAIL_RUN_ASCENT_FT)),
     avg_pace |-> pace,
     avg_hr |-> hr,
     avg_cadence |-> cad,
     aerobic_te |-> te,
     avg_ground_contact_ms |-> gct,
     body_battery_drain |-> bbd]

\* one row of GarminData._raw; is_trail is derived once, at parse time
ActivityRow(type, date, dist, ascent, pace, hr, cad, te, gct, bbd) ==
    [activity_type |-> type,
     date |-> date,
     distance_mi |-> dist,
     total_ascent_ft |-> ascent,
     is_trail |-> IsSome(ascent) /\ RatGT(Val(ascent), R(TRAIL_RUN_ASCENT_FT)),
     avg_pace |-> pace,
     avg_hr |-> hr,
     avg_cadence |-> cad,
     aerobic_te |-> te,
     avg_ground_contact_ms |-> gct,
     body_battery_drain |-> bbd]

\* GarminData.runs
Runs(raw) == SelectSeq(raw, LAMBDA row : row.activity_type \in RUNNING_ACTIVITY_TYPES)

(***************************************************************************)
(* running.py                                                              *)
(***************************************************************************)
\* the dataclass defaults with 0.0 in place of None for the averages
RunWeekStatsZeroAverages(ws, we) ==
    [week_start |-> ws,
     week_end |-> we,
     total_miles |-> R(0),
     total_elevation_gain_ft |-> R(0),
     run_count |-> 0,
     flat_run_count |-> 0,
     flat_avg_pace_dec |-> Some(R(0)),
     flat_avg_hr |-> Some(R(0)),
     flat_avg_cadence |-> Some(R(0)),
     flat_avg_aerobic_te |-> Some(R(0)),
     flat_avg_ground_contact_ms |-> Some(R(0)),
     longest_run_miles |-> R(0),
     trail_run_count |-> 0,
     trail_total_miles |-> R(0),
     trail_total_elevation_ft |-> R(0),
     avg_body_battery_drain |-> Some(R(0)),
     max_body_battery_drain |-> Some(R(0)),
     hr_pace_efficiency |-> None]

\* RunWeekStats(week_start, week_end): the dataclass defaults
RunWeekStats(ws, we) ==
    [week_start |-> ws,
     week_end |-> we,
     total_miles |-> R(0),
     total_elevation_gain_ft |-> R(0),
     run_count |-> 0,
     flat_run_count |-> 0,
     flat_avg_pace_dec |-> None,
     flat_avg_hr |-> None,
     flat_avg_cadence |-> None,
     flat_avg_aerobic_te |-> None,
     flat_avg_ground_contact_ms |-> None,
     longest_run_miles |-> R(0),
     trail_run_count |-> 0,
     trail_total_miles |-> R(0),
     trail_total_elevation_ft |-> R(0),
     avg_body_battery_drain |-> None,
     max_body_battery_drain |-> None,
     hr_pace_efficiency |-> None]

\* vals = col.dropna(); vals.mean() if len(vals), else the field stays None
MeanOrNone(cells) ==
    LET vals == DropNa(cells)
    IN  IF Len(vals) > 0 THEN Some(Mean(vals)) ELSE None

MaxOrNone(cells) ==
    LET vals == DropNa(cells)
    IN  IF Len(vals) > 0 THEN Some(RatMax(vals)) ELSE None

\* the statistics of the rows of one window; flat and trail are the rows of
\* the window by is_trail, pace and hr the flat means computed first
ComputeWeekStats(all_runs, ws, we) ==
    LET Filled(stats, window, flat, trail, pace, hr) ==
            [stats EXCEPT
                 !.run_count = Len(window),
                 !.total_miles = SumSkipNa(Map(window, LAMBDA row : row.distance_mi)),
                 !.total_elevation_gain_ft =
                     SumSkipNa(Map(window, LAMBDA row : row.total_ascent_ft)),
                 !.longest_run_miles =
                     MaxSkipNa(Map(window, LAMBDA row : row.distance_mi)),
                 !.flat_run_count = Len(flat),
                 !.flat_avg_pace_dec = pace,
                 !.flat_avg_hr = hr,
                 !.flat_avg_cadence = MeanOrNone(Map(flat, LAMBDA row : row.avg_cadence)),
                 !.flat_avg_aerobic_te =
                     MeanOrNone(Map(flat, LAMBDA row : row.aerobic_te)),
                 !.flat_avg_ground_contact_ms =
                     MeanOrNone(Map(flat, LAMBDA row : row.avg_ground_contact_ms)),
                 !.hr_pace_efficiency =
                     IF OptTruthy(hr) /\ OptTruthy(pace) /\ RatGT(Val(pace), R(0))
                     THEN Some(RatDiv(Val(hr), Val(pace)))
                     ELSE None,
                 !.trail_run_count = Len(trail),
                 !.trail_total_miles =
                     SumSkipNa(Map(trail, LAMBDA row : row.distance_mi)),
                 !.trail_total_elevation_ft =
                     SumSkipNa(Map(trail, LAMBDA row : row.total_ascent_ft)),
                 !.avg_body_battery_drain =
                     MeanOrNone(Map(window, LAMBDA row : row.body_battery_drain)),
                 !.max_body_battery_drain =
                     MaxOrNone(Map(window, LAMBDA row : row.body_battery_drain))]
        Split(stats, window, flat, trail) ==
            Filled(stats, window, flat, trail,
                   MeanOrNone(Map(flat, LAMBDA row : row.avg_pace)),
                   MeanOrNone(Map(flat, LAMBDA row : row.avg_hr)))
        Sliced(stats, window) ==
            IF all_runs = <<>> \/ window = <<>> THEN stats
            ELSE Split(stats, window,
                       SelectSeq(window, LAMBDA row : ~row.is_trail),
                       SelectSeq(window, LAMBDA row : row.is_trail))
    IN  Sliced(RunWeekStats(ws, we), WeekSlice(all_runs, ws, we))

NumPriorWeeks == 4

\* w_end = week_start - (1 + 7 (i - 1)) days; w_start = w_end - 6 days
RunPriorWindowGap(ws, i) ==
    LET w_end == ws - 7 * i
    IN  <<w_end - 6, w_end>>

RunPriorWindow(ws, i) ==
    LET w_end == ws - (1 + 7 * (i - 1))
    IN  <<w_end - 6, w_end>>

\* the mean with an absent value counted as zero
AvgCountingAbsent(vals) ==
    IF DropNa(vals) = <<>> THEN None
    ELSE Some(RatDiv(RatSum(DropNa(vals)), R(Len(vals))))

\* _avg: the mean of the values that are neither None nor NaN, else None
Avg(vals) == MeanOrNone(vals)

\* x or 0.0
OrZero(o) == IF OptTruthy(o) THEN Val(o) ELSE R(0)

\* the miles of a week with runs only, a week without runs left out
WeekMilesIfRun(s) == IF s.run_count > 0 THEN Some(s.total_miles) ELSE None

\* s.total_miles for s in prior_stats: 0.0 for a week without runs
WeekMiles(s) == Some(s.total_miles)

ComputeRollingAvgStats(all_runs, ws, num_prior_weeks) ==
    LET Averaged(avg, prior_stats) ==
          [avg EXCEPT
            !.total_miles = OrZero(Avg(Map(prior_stats, WeekMiles))),
            !.total_elevation_gain_ft =
                OrZero(Avg(Map(prior_stats, LAMBDA s : Some(s.total_elevation_gain_ft)))),
            !.run_count =
                PyRound(OrZero(Avg(Map(prior_stats, LAMBDA s : Some(R(s.run_count)))))),
            !.flat_avg_pace_dec = Avg(Map(prior_stats, LAMBDA s : s.flat_avg_pace_dec)),
            !.flat_avg_hr = Avg(Map(prior_stats, LAMBDA s : s.flat_avg_hr)),
            !.flat_avg_cadence = Avg(Map(prior_stats, LAMBDA s : s.flat_avg_cadence)),
            !.flat_avg_aerobic_te =
                Avg(Map(prior_stats, LAMBDA s : s.flat_avg_aerobic_te)),
            !.flat_avg_ground_contact_ms =
                Avg(Map(prior_stats, LAMBDA s : s.flat_avg_ground_contact_ms)),
            !.longest_run_miles =
                OrZero(Avg(Map(prior_stats, LAMBDA s : Some(s.longest_run_miles)))),
            !.trail_run_count =
                PyRound(OrZero(Avg(Map(prior_stats, LAMBDA s : Some(R(s.trail_run_count)))))),
            !.avg_body_battery_drain =
                Avg(Map(prior_stats, LAMBDA s : s.avg_body_battery_drain))]
    IN  Averaged(RunWeekStats(ws, ws),
                 [i \in 1..num_prior_weeks |->
                     ComputeWeekStats(all_runs, RunPriorWindow(ws, i)[1],
                                      RunPriorWindow(ws, i)[2])])

\* result.overreach_flag = result.mileage_change_pct > MILEAGE_OVERREACH_PCT
OverreachAtLeast(pct) == RatGE(pct, MILEAGE_OVERREACH_PCT)

Overreach(pct) == RatGT(pct, MILEAGE_OVERREACH_PCT)

\* the test with the heart rate required to stay below +2 bpm
AerobicAdaptationBelow(pace_change_dec, hr_change) ==
    RatLT(pace_change_dec, Rat(-5, 100)) /\ RatLT(hr_change, R(2))

\* result.pace_change_dec < -0.05 and result.hr_change <= 2
AerobicAdaptation(pace_change_dec, hr_change) ==
    RatLT(pace_change_dec, Rat(-5, 100)) /\ RatLE(hr_change, R(2))

RunningAnalyzeOf(garmin_data, ws, we) ==
    LET Delta(cur, roll) ==
            IF OptTruthy(cur) /\ OptTruthy(roll)
            THEN Some(RatSub(Val(cur), Val(roll)))
            ELSE None
        Result(current, rolling, has_rolling, mileage_change_pct, pace_change_dec,
               hr_change, both, bbd) ==
            [current |-> current,
             rolling_4wk |-> rolling,
             mileage_change_pct |-> mileage_change_pct,
             pace_change_dec |-> pace_change_dec,
             hr_change |-> hr_change,
             cadence_change |-> Delta(current.flat_avg_cadence, rolling.flat_avg_cadence),
             ground_contact_change_ms |->
                 Delta(current.flat_avg_ground_contact_ms,
                       rolling.flat_avg_ground_contact_ms),
             overreach_flag |-> has_rolling /\ Overreach(Val(mileage_change_pct)),
             recovery_debt_flag |->
                 IsSome(bbd) /\ RatGT(Val(bbd), R(BODY_BATTERY_DRAIN_CONCERN)),
             aerobic_adaptation_signal |->
                 both /\ AerobicAdaptation(Val(pace_change_dec), Val(hr_change)),
             fatigue_signal |->
                 /\ both
                 /\ RatGT(Val(pace_change_dec), Rat(5, 100))
                 /\ RatGT(Val(hr_change), R(2))]
        Changes(current, rolling, has_rolling, pace_change_dec, hr_change) ==
            Result(current, rolling, has_rolling,
                   IF has_rolling
                   THEN Some(RatDiv(RatSub(current.total_miles, rolling.total_miles),
                                    rolling.total_miles))
                   ELSE None,
                   pace_change_dec, hr_change,
                   IsSome(pace_change_dec) /\ IsSome(hr_change),
                   current.avg_body_battery_drain)
        Compared(current, rolling) ==
            Changes(current, rolling,
                    Truthy(rolling.total_miles) /\ RatGT(rolling.total_miles, R(0)),
                    Delta(current.flat_avg_pace_dec, rolling.flat_avg_pace_dec),
                    Delta(current.flat_avg_hr, rolling.flat_avg_hr))
        Analysed(all_runs) ==
            Compared(ComputeWeekStats(all_runs, ws, we),
                     ComputeRollingAvgStats(all_runs, ws, NumPriorWeeks))
    IN  Analysed(Runs(garmin_data))

(***************************************************************************)
(* The activity tables analysed: one template per week, the current week   *)
(* and the four weeks before it, laid out from Monday day 0                *)
(***************************************************************************)
Flat20(d) ==
    ActivityRow("Running", d, Some(R(20)), Some(R(100)), Some(Rat(33, 4)),
                Some(R(150)), Some(R(170)), Some(R(3)), Some(R(250)), Some(R(10)))

Flat22(d) ==
    ActivityRow("Treadmill Running", d, Some(R(22)), Some(R(500)), Some(Rat(17, 2)),
                Some(R(155)), Some(R(168)), Some(Rat(7, 2)), Some(R(260)), Some(R(20)))

Trail3(d) ==
    ActivityRow("Trail Running", d, Some(R(3)), Some(R(900)), Some(R(12)),
                Some(R(160)), Some(R(150)), Some(R(4)), Some(R(280)), Some(R(30)))

\* five hundredths of a minute slower than Flat20, two beats higher
Edge6(d) ==
    ActivityRow("Running", d, Some(R(6)), Some(R(100)), Some(Rat(83, 10)),
                Some(R(152)), Some(R(170)), Some(R(3)), Some(R(255)), Some(R(15)))

\* a tenth of a minute faster than Flat20, two beats higher
Fast6(d) ==
    ActivityRow("Running", d, Some(R(6)), Some(R(100)), Some(Rat(163, 20)),
                Some(R(152)), Some(R(170)), Some(R(3)), Some(R(256)), Some(R(16)))

Bare5(d) ==
    ActivityRow("Running", d, Some(R(5)), None, None, None, None, None, None, None)

Ride30(d) ==
    ActivityRow("Cycling", d, Some(R(30)), Some(R(200)), None,
                Some(R(130)), None, Some(R(2)), None, Some(R(5)))

ActivityOf(kind, d) ==
    CASE kind = "Flat20" -> Flat20(d)
      [] kind = "Flat22" -> Flat22(d)
      [] kind = "Trail3" -> Trail3(d)
      [] kind = "Bare5" -> Bare5(d)
      [] kind = "Ride30" -> Ride30(d)
      [] kind = "Edge6" -> Edge6(d)
      [] kind = "Fast6" -> Fast6(d)

\* a week template: <<day of the week (<<>>: the date is missing), activity>>
HistoryTemplates ==
    {<<>>,
     <<<<Some(0), "Flat20">>>>,
     <<<<Some(3), "Bare5">>>>,
     <<<<Some(6), "Flat22">>>>}

CurrentTemplates ==
    HistoryTemplates \cup
    {<<<<Some(0), "Flat20">>, <<Some(6), "Trail3">>>>,
     <<<<Some(1), "Ride30">>>>,
     <<<<Some(4), "Edge6">>>>,
     <<<<Some(4), "Fast6">>>>,
     <<<<Some(2), "Trail3">>, <<None, "Flat20">>>>}

\* the rows of one week template, for the week that starts on day monday
WeekRows(template, monday) ==
    [i \in 1..Len(template) |->
        ActivityOf(template[i][2],
                   IF IsSome(template[i][1])
                   THEN Some(monday + Val(template[i][1]))
                   ELSE None)]

\* sorted ascending by date, missing dates last: weeks 4, 3, 2, 1 back, then
\* the current week
ActivityTable(history, current) ==
    WeekRows(history[4], -28) \o WeekRows(history[3], -21)
        \o WeekRows(history[2], -14) \o WeekRows(history[1], -7)
        \o WeekRows(current, 0)

ActivityTables ==
    {ActivityTable(h, c) : h \in [1..4 -> HistoryTemplates], c \in CurrentTemplates}

\* the most runs of one week in the tables made for run counts
MaxWeekRuns == 4

\* a week of k runs on its first k days, every second one a trail run
CountedWeek(k) ==
    [j \in 1..k |-> <<Some(j - 1), IF j % 2 = 0 THEN "Trail3" ELSE "Flat20">>]

\* four prior weeks of 0..MaxWeekRuns runs each, and one run this week
CountedTables ==
    {ActivityTable([i \in 1..4 |-> CountedWeek(counts[i])], CountedWeek(1)) :
        counts \in [1..4 -> 0..MaxWeekRuns]}

CountedStart == garmin_raw \in CountedTables /\ run_windows = <<>> /\ running = None

\* the analysed week starts on Monday day 0 or up to MaxStartShift days later
WeekStarts == 0..MaxStartShift

ArgStart == week_start \in WeekStarts /\ week_end = week_start + 6

ArgIdle == week_start = 0 /\ week_end = 6

RunStart == garmin_raw \in ActivityTables /\ run_windows = <<>> /\ running = None

RunIdle == garmin_raw = <<>> /\ run_windows = <<>> /\ running = None

RunningAnalyze ==
    /\ running = None
    /\ running' = Some(RunningAnalyzeOf(garmin_raw, week_start, week_end))
    /\ run_windows' = [i \in 1..NumPriorWeeks |-> RunPriorWindow(week_start, i)]
    /\ UNCHANGED <<garmin_raw, notRun>>

(***************************************************************************)
(* Dicts: sequences of <<key, value>> in insertion order                   *)
(***************************************************************************)
DictHas(dict, k) == \E i \in 1..Len(dict) : dict[i][1] = k

DictGet(dict, k) == dict[CHOOSE i \in 1..Len(dict) : dict[i][1] = k][2]

DictKeys(dict) == {dict[i][1] : i \in 1..Len(dict)}

\* the concatenation of a sequence of sequences
RECURSIVE Flatten(_)
Flatten(ss) == IF ss = <<>> THEN <<>> ELSE Head(ss) \o Flatten(Tail(ss))

(***************************************************************************)
(* config.py and nutrition.py: thresholds                                  *)
(***************************************************************************)
FALLBACK_CALORIE_TARGET == 1377

FALLBACK_PROTEIN_TARGET_G == 153

FALLBACK_CARBS_TARGET_G == 87

FALLBACK_FAT_TARGET_G == 45

FIBER_TARGET_G == 25

PROTEIN_PRESERVATION_MIN_G == 140

CARBS_UNDERFUEL_MIN_G == 80

CALORIE_ADHERENCE_WINDOW_KCAL == 100

CALORIE_VARIANCE_CONCERN_STDEV == 300

UNDERFUEL_MILEAGE == 30

INCOMPLETE_WEEK_DAYS == 5

MICRO_FLAG_PCT == 80

MICRONUTRIENT_TARGETS ==
    <<<<"fiber", R(FIBER_TARGET_G)>>,
      <<"iron", R(18)>>,
      <<"vitamin_d", R(15)>>,
      <<"potassium", R(3400)>>,
      <<"magnesium", R(420)>>,
      <<"sodium", R(2300)>>,
      <<"calcium", R(1000)>>,
      <<"vitamin_b12", Rat(24, 10)>>,
      <<"zinc", R(11)>>>>

(***************************************************************************)
(* nutrition.py                                                            *)
(***************************************************************************)
\* a MacroFactor table: [columns |-> the column names after "date", in
\* order, rows |-> <<[date, v |-> [column -> Optional float]]>>]
EmptyTable == [columns |-> <<>>, rows |-> <<>>]

\* c.lower() in col.lower(), for the column names and candidates modelled
ColumnSubstrings(col) ==
    CASE col = "calories" -> {"calorie"}
      [] col = "protein_g" -> {"protein"}
      [] col = "carbs_g" -> {"carb"}
      [] col = "fat_g" -> {"fat"}
      [] col = "expenditure" -> {"expenditure"}
      [] col = "dietary_fiber" -> {"fiber", "dietary_fiber"}
      [] col = "weight" -> {"weight"}
      [] col = "body_fat_pct" -> {"fat", "pct"}
      [] col = "trend_weight" -> {"trend", "weight"}
      [] OTHER -> {col}

\* _find_col: the first column containing the first candidate that any
\* column contains
RECURSIVE FindCol(_, _)
FindCol(columns, candidates) ==
    IF candidates = <<>> THEN None
    ELSE LET c == Head(candidates)
             hits == SelectSeq(columns, LAMBDA col : c \in ColumnSubstrings(col))
         IN  IF hits # <<>> THEN Some(Head(hits)) ELSE FindCol(columns, Tail(candidates))

\* df[col] of the rows
Column(rows, col) == Map(rows, LAMBDA row : row.v[col])

\* _week_slice; a slice of a table keeps its columns
TableWeek(df, start, end) ==
    [columns |-> df.columns, rows |-> WeekSlice(df.rows, start, end)]

\* Series.std(): the sample standard deviation (ddof = 1), kept as its
\* square; NaN for a single value
Sqrt(var) == [sq |-> var]

SampleStd(vals) ==
    LET m == Mean(vals)
        dev == Map(vals, LAMBDA x : RatMul(RatSub(x, m), RatSub(x, m)))
    IN  IF Len(vals) < 2 THEN Sqrt(NaNRat)
        ELSE Sqrt(RatDiv(RatSum(dev), R(Len(vals) - 1)))

\* bool(stdev) and stdev > k
StdTruthy(s) == Truthy(s.sq)

StdGT(s, k) == RatGT(s.sq, R(k * k))

\* round(x, 1)
Round1(a) == Rat(RoundHalfEven(a.n * 10, a.d), 10)

\* (vals >= t).sum()
CountGE(vals, t) == Len(SelectSeq(vals, LAMBDA x : RatGE(x, t)))

\* the count with the boundary left out
CountStrictlyWithin(vals, t, w) ==
    Len(SelectSeq(vals, LAMBDA x : RatLT(RatAbs(RatSub(x, t)), w)))

\* (abs(vals - t) <= w).sum()
CountWithin(vals, t, w) ==
    Len(SelectSeq(vals, LAMBDA x : RatLE(RatAbs(RatSub(x, t)), w)))

NutritionWeekStats(ws, we) ==
    [week_start |-> ws,
     week_end |-> we,
     logged_days |-> 0,
     avg_calories |-> None,
     avg_protein_g |-> None,
     avg_carbs_g |-> None,
     avg_fat_g |-> None,
     avg_fiber_g |-> None,
     calorie_stdev |-> None,
     avg_expenditure |-> None,
     target_calories |-> None,
     target_protein_g |-> None,
     target_carbs_g |-> None,
     target_fat_g |-> None,
     protein_hit_days |-> 0,
     calorie_target_days |-> 0,
     avg_micronutrients |-> <<>>]

\* the mean of a found column's non-missing cells, else None
ColumnMean(df, col) ==
    IF IsSome(col) THEN MeanOrNone(Column(df.rows, Val(col))) ELSE None

\* the values of a found column, missing cells dropped
ColumnVals(df, col) == IF IsSome(col) THEN DropNa(Column(df.rows, Val(col))) ELSE <<>>

WeekStatsOf(mf_data, ws, we) ==
    LET targets == mf_data.targets
        exp_df == mf_data.expenditure
        micro_df == mf_data.micronutrients
        protein_target ==
            IF OptTruthy(targets.protein_g) THEN Val(targets.protein_g)
            ELSE R(PROTEIN_PRESERVATION_MIN_G)
        Filled(cm_week, logged, cal_col, cal_vals, prot_vals, exp_week, exp_col,
               micro_week, has_micro, fiber_avg) ==
          [NutritionWeekStats(ws, we) EXCEPT
            !.target_calories = targets.calories,
            !.target_protein_g = targets.protein_g,
            !.target_carbs_g = targets.carbs_g,
            !.target_fat_g = targets.fat_g,
            !.logged_days = IF logged THEN Len(cm_week.rows) ELSE 0,
            !.avg_calories = IF logged THEN ColumnMean(cm_week, cal_col) ELSE None,
            !.calorie_stdev =
                IF logged /\ cal_vals # <<>> THEN Some(SampleStd(cal_vals)) ELSE None,
            !.avg_protein_g =
                IF logged THEN ColumnMean(cm_week, FindCol(cm_week.columns, <<"protein">>))
                ELSE None,
            !.protein_hit_days =
                IF logged /\ prot_vals # <<>> THEN CountGE(prot_vals, protein_target)
                ELSE 0,
            !.avg_carbs_g =
                IF logged THEN ColumnMean(cm_week, FindCol(cm_week.columns, <<"carb">>))
                ELSE None,
            !.avg_fat_g =
                IF logged THEN ColumnMean(cm_week, FindCol(cm_week.columns, <<"fat">>))
                ELSE None,
            !.calorie_target_days =
                IF logged /\ IsSome(cal_col) /\ OptTruthy(targets.calories)
                THEN CountWithin(cal_vals, Val(targets.calories),
                                 R(CALORIE_ADHERENCE_WINDOW_KCAL))
                ELSE 0,
            !.avg_expenditure =
                IF exp_df.rows # <<>> /\ IsSome(exp_col) /\ exp_week.rows # <<>>
                THEN ColumnMean(exp_week, exp_col)
                ELSE None,
            !.avg_fiber_g = fiber_avg,
            !.avg_micronutrients =
                (IF IsSome(fiber_avg) THEN <<<<"fiber", Val(fiber_avg)>>>> ELSE <<>>)
                \o (IF has_micro
                    THEN Flatten(Map(MICRONUTRIENT_TARGETS, LAMBDA t :
                            LET MicroEntry(key, avg) ==
                                    IF key # "fiber" /\ IsSome(avg)
                                    THEN <<<<key, Val(avg)>>>> ELSE <<>>
                            IN  MicroEntry(t[1],
                                    ColumnMean(micro_week,
                                               FindCol(micro_week.columns, <<t[1]>>)))))
                    ELSE <<>>)]
        \* the first of the three fiber spellings that finds a column ends the loop
        FiberCol(micro_week, fiber_hits) ==
            IF fiber_hits = <<>> THEN None
            ELSE FindCol(micro_week.columns, <<Head(fiber_hits)>>)
        Micro(cm_week, logged, cal_col, cal_vals, prot_vals, exp_week, exp_col,
              micro_week, has_micro) ==
            Filled(cm_week, logged, cal_col, cal_vals, prot_vals, exp_week, exp_col,
                   micro_week, has_micro,
                   IF has_micro
                   THEN ColumnMean(micro_week,
                            FiberCol(micro_week,
                                SelectSeq(<<"fiber", "dietary_fiber", "fibre">>,
                                    LAMBDA k : IsSome(FindCol(micro_week.columns, <<k>>)))))
                   ELSE None)
        Columns(cm_week, cal_col, exp_week, micro_week) ==
            Micro(cm_week, cm_week.rows # <<>>, cal_col,
                  ColumnVals(cm_week, cal_col),
                  ColumnVals(cm_week, FindCol(cm_week.columns, <<"protein">>)),
                  exp_week, FindCol(exp_week.columns, <<"expenditure", "tdee", "total">>),
                  micro_week, micro_df.rows # <<>> /\ micro_week.rows # <<>>)
        Weeks(cm_week, exp_week, micro_week) ==
            Columns(cm_week, FindCol(cm_week.columns, <<"calorie", "kcal", "energy">>),
                    exp_week, micro_week)
    IN  Weeks(IF mf_data.calories_macros.rows # <<>>
              THEN TableWeek(mf_data.calories_macros, ws, we) ELSE EmptyTable,
              TableWeek(exp_df, ws, we),
              TableWeek(micro_df, ws, we))

\* if stats.avg_protein_g and stats.avg_protein_g < PROTEIN_PRESERVATION_MIN_G
LowProtein(avg_protein_g) ==
    OptTruthy(avg_protein_g) /\ RatLT(Val(avg_protein_g), R(PROTEIN_PRESERVATION_MIN_G))

\* avg_carbs_g is not None and avg_carbs_g < CARBS_UNDERFUEL_MIN_G and
\* weekly_mileage > 30
CarbUnderfuelTruthy(avg_carbs_g, mileage) ==
    /\ OptTruthy(avg_carbs_g)
    /\ RatLT(Val(avg_carbs_g), R(CARBS_UNDERFUEL_MIN_G))
    /\ RatGT(mileage, R(UNDERFUEL_MILEAGE))

CarbUnderfuel(avg_carbs_g, mileage) ==
    /\ IsSome(avg_carbs_g)
    /\ RatLT(Val(avg_carbs_g), R(CARBS_UNDERFUEL_MIN_G))
    /\ RatGT(mileage, R(UNDERFUEL_MILEAGE))

\* actual / target * 100 when both are truthy
PctOfTarget(actual, target) ==
    IF OptTruthy(actual) /\ OptTruthy(target)
    THEN Some(RatMul(RatDiv(Val(actual), Val(target)), R(100)))
    ELSE None

\* a nutrient at 80 % of its target flagged as well
MicroAtMost(pct) == RatLE(pct, R(MICRO_FLAG_PCT))

\* if pct < 80
MicroBelow(pct) == RatLT(pct, R(MICRO_FLAG_PCT))

NutritionAnalyzeOf(mf_data, ws, we, mileage) ==
    LET Result(stats, has_deficit, daily_deficit, target_deficit) ==
          [current |-> stats,
           weekly_mileage |-> mileage,
           avg_daily_deficit |-> daily_deficit,
           deficit_vs_target |->
               IF has_deficit /\ OptTruthy(stats.target_calories)
                  /\ target_deficit.n # 0
               THEN Some(RatSub(Val(daily_deficit), target_deficit))
               ELSE None,
           calories_pct_target |-> PctOfTarget(stats.avg_calories, stats.target_calories),
           protein_pct_target |-> PctOfTarget(stats.avg_protein_g, stats.target_protein_g),
           carbs_pct_target |-> PctOfTarget(stats.avg_carbs_g, stats.target_carbs_g),
           fat_pct_target |-> PctOfTarget(stats.avg_fat_g, stats.target_fat_g),
           protein_hit_rate |->
               IF stats.logged_days > 0
               THEN Some(Rat(stats.protein_hit_days, stats.logged_days))
               ELSE None,
           calorie_target_rate |->
               IF stats.logged_days > 0
               THEN Some(Rat(stats.calorie_target_days, stats.logged_days))
               ELSE None,
           low_protein_flag |-> LowProtein(stats.avg_protein_g),
           low_carb_underfuel_flag |-> CarbUnderfuel(stats.avg_carbs_g, mileage),
           high_calorie_variance_flag |->
               /\ IsSome(stats.calorie_stdev)
               /\ StdTruthy(Val(stats.calorie_stdev))
               /\ StdGT(Val(stats.calorie_stdev), CALORIE_VARIANCE_CONCERN_STDEV),
           incomplete_week_flag |-> stats.logged_days < INCOMPLETE_WEEK_DAYS,
           micronutrient_flags |->
               Flatten(Map(MICRONUTRIENT_TARGETS, LAMBDA t :
                   LET MicroFlag(key, pct) ==
                           IF MicroBelow(pct)
                           THEN <<<<key, Round1(pct)>>>> ELSE <<>>
                   IN  IF DictHas(stats.avg_micronutrients, t[1])
                       THEN MicroFlag(t[1],
                                RatMul(RatDiv(DictGet(stats.avg_micronutrients, t[1]),
                                              t[2]),
                                       R(100)))
                       ELSE <<>>))]
        Deficit(stats, has_deficit) ==
            Result(stats, has_deficit,
                   IF has_deficit
                   THEN Some(RatSub(Val(stats.avg_expenditure), Val(stats.avg_calories)))
                   ELSE None,
                   RatSub(Val(stats.avg_expenditure), Val(stats.target_calories)))
        Analysed(stats) ==
            Deficit(stats, OptTruthy(stats.avg_calories) /\ OptTruthy(stats.avg_expenditure))
    IN  Analysed(WeekStatsOf(mf_data, ws, we))
(***************************************************************************)
(* MacroFactor data the nutrition analyzer is run on                       *)
(***************************************************************************)
MaxLoggedDays == 2

\* a logged day: calories, protein, carbs, fat (a blank cell is None)
DayProfiles ==
    <<[calories |-> Some(R(1377)), protein_g |-> Some(R(150)),
       carbs_g |-> Some(R(80)), fat_g |-> Some(R(45))],
      [calories |-> Some(R(1477)), protein_g |-> Some(R(130)),
       carbs_g |-> Some(R(79)), fat_g |-> Some(R(40))],
      [calories |-> Some(R(1277)), protein_g |-> Some(R(140)),
       carbs_g |-> Some(R(81)), fat_g |-> Some(R(50))],
      [calories |-> Some(R(0)), protein_g |-> Some(R(0)),
       carbs_g |-> Some(R(0)), fat_g |-> Some(R(0))],
      [calories |-> None, protein_g |-> None, carbs_g |-> None, fat_g |-> None],
      [calories |-> Some(R(1977)), protein_g |-> Some(R(160)),
       carbs_g |-> Some(R(300)), fat_g |-> Some(R(90))]>>

MacroSchemas ==
    {<<"calories", "protein_g", "carbs_g", "fat_g">>, <<"calories", "fat_g">>}

\* the row of a table with the given columns, cells taken from a profile
RowOf(columns, day, profile) ==
    [date |-> Some(day),
     v |-> [c \in {columns[i] : i \in 1..Len(columns)} |-> profile[c]]]

\* the logged days of a week: non-decreasing picks of day profiles, on
\* consecutive days from day 0, and full weeks of one profile
DayPicks ==
    {p \in UNION {[1..n -> 1..Len(DayProfiles)] : n \in 0..MaxLoggedDays} :
        \A i \in 1..(Len(p) - 1) : p[i] <= p[i + 1]}
    \cup {[i \in 1..n |-> k] : n \in 5..7, k \in {1, 2}}

MacroTables ==
    {[columns |-> cols,
      rows |-> [i \in 1..Len(p) |-> RowOf(cols, i - 1, DayProfiles[p[i]])]] :
        cols \in MacroSchemas, p \in DayPicks}

TargetSets ==
    {[calories |-> Some(R(FALLBACK_CALORIE_TARGET)),
      protein_g |-> Some(R(FALLBACK_PROTEIN_TARGET_G)),
      carbs_g |-> Some(R(FALLBACK_CARBS_TARGET_G)),
      fat_g |-> Some(R(FALLBACK_FAT_TARGET_G))],
     [calories |-> Some(R(1500)), protein_g |-> Some(R(140)),
      carbs_g |-> Some(R(100)), fat_g |-> Some(R(50))],
     [calories |-> None, protein_g |-> None, carbs_g |-> None, fat_g |-> None]}

ExpenditureCells == {Some(R(2009)), Some(R(1377)), None}

ExpenditureTables ==
    {[columns |-> <<"expenditure">>, rows |-> <<>>]}
    \cup {[columns |-> <<"expenditure">>,
           rows |-> <<RowOf(<<"expenditure">>, 0, [expenditure |-> e])>>] :
              e \in ExpenditureCells}

MicroColumns == <<"dietary_fiber", "iron", "sodium", "vitamin_b12">>

MicroProfiles ==
    <<[dietary_fiber |-> Some(R(25)), iron |-> Some(R(18)),
       sodium |-> Some(R(2300)), vitamin_b12 |-> Some(Rat(24, 10))],
      [dietary_fiber |-> Some(R(20)), iron |-> Some(R(9)),
       sodium |-> Some(R(1839)), vitamin_b12 |-> None]>>

MicroTables ==
    {[columns |-> MicroColumns,
      rows |-> [i \in 1..Len(p) |-> RowOf(MicroColumns, i - 1, MicroProfiles[p[i]])]] :
        p \in {<<>>, <<1>>, <<2>>, <<1, 2>>}}

Mileages == {R(0), R(30), Rat(61, 2), R(31)}

\* every macro table with every target set and mileage, and every
\* expenditure and micronutrient table with a few macro tables
MacroFactorInputs ==
    {[targets |-> t, calories_macros |-> cm,
      expenditure |-> [columns |-> <<"expenditure">>,
                       rows |-> <<RowOf(<<"expenditure">>, 0,
                                        [expenditure |-> Some(R(2009))])>>],
      micronutrients |-> [columns |-> MicroColumns, rows |-> <<>>]] :
        t \in TargetSets, cm \in MacroTables}
    \cup
    {[targets |-> t, calories_macros |-> cm, expenditure |-> e, micronutrients |-> m] :
        t \in {x \in TargetSets : x.calories = Some(R(FALLBACK_CALORIE_TARGET))},
        cm \in {x \in MacroTables : Len(x.columns) = 4 /\ Len(x.rows) = 1
                                     /\ x.rows[1].v["calories"] \in {Some(R(1377)), Some(R(0))}},
        e \in ExpenditureTables, m \in MicroTables}

\* no MacroFactor rows at all: the fallback targets and empty tables
NoMacroFactor ==
    [targets |-> [calories |-> Some(R(FALLBACK_CALORIE_TARGET)),
                  protein_g |-> Some(R(FALLBACK_PROTEIN_TARGET_G)),
                  carbs_g |-> Some(R(FALLBACK_CARBS_TARGET_G)),
                  fat_g |-> Some(R(FALLBACK_FAT_TARGET_G))],
     calories_macros |-> EmptyTable, expenditure |-> EmptyTable,
     micronutrients |-> EmptyTable]

NutStart ==
    /\ mf_nutrition \in MacroFactorInputs
    /\ weekly_mileage \in Mileages
    /\ nutrition = None

NutIdle ==
    /\ mf_nutrition = NoMacroFactor
    /\ weekly_mileage = R(0)
    /\ nutrition = None

\* nutrition.analyze(mf_data, week_start, week_end, weekly_mileage)
NutritionAnalyze ==
    /\ nutrition = None
    /\ nutrition' = Some(NutritionAnalyzeOf(mf_nutrition, week_start, week_end,
                                            weekly_mileage))
    /\ UNCHANGED <<mf_nutrition, weekly_mileage, notNut>>

(***************************************************************************)
(* The nutrition targets: MacroFactorData keeps the settings table, rows   *)
(* of an effective day and the targets set on that day, oldest first       *)
(***************************************************************************)
TargetRow(day, calories, protein_g, carbs_g, fat_g) ==
    [effective |-> day,
     targets |-> [calories |-> calories, protein_g |-> protein_g,
                  carbs_g |-> carbs_g, fat_g |-> fat_g]]

\* MacroFactorData.get_current_targets(): the newest row of the settings
\* table, a value it leaves unset replaced by the fixed default
get_current_targets(settings) ==
    LET Current(row) ==
            [k \in DOMAIN NoMacroFactor.targets |->
                IF IsSome(row[k]) THEN row[k] ELSE NoMacroFactor.targets[k]]
    IN  IF settings = <<>> THEN NoMacroFactor.targets
        ELSE Current(settings[Len(settings)].targets)

TargetSettings ==
    {<<>>,
     <<TargetRow(-30, Some(R(1500)), Some(R(140)), Some(R(100)), Some(R(50)))>>,
     <<TargetRow(0, Some(R(1500)), Some(R(140)), Some(R(100)), Some(R(50)))>>,
     <<TargetRow(7, Some(R(1400)), Some(R(150)), None, Some(R(40)))>>,
     <<TargetRow(0, Some(R(1500)), Some(R(140)), Some(R(100)), Some(R(50))),
       TargetRow(7, Some(R(1400)), Some(R(150)), None, Some(R(40)))>>}

\* two weeks, the settings of the second made on its first day
TargetWeekStarts == {0, 7}

\* the data both weeks are analysed against: the settings table, the
\* targets read from it, and logged days in either week
TargetMacroFactor ==
    {[target_settings |-> settings,
      targets |-> get_current_targets(settings),
      calories_macros |->
          [columns |-> <<"calories", "protein_g", "carbs_g", "fat_g">>,
           rows |-> [i \in 1..Len(days) |->
                       RowOf(<<"calories", "protein_g", "carbs_g", "fat_g">>,
                             days[i][1], DayProfiles[days[i][2]])]],
      expenditure |-> EmptyTable,
      micronutrients |-> EmptyTable] :
        settings \in TargetSettings,
        days \in {<<>>, <<<<0, 1>>>>, <<<<7, 2>>>>, <<<<0, 1>>, <<7, 2>>>>,
                  <<<<0, 3>>, <<1, 6>>, <<8, 1>>>>, <<<<6, 2>>, <<13, 3>>>>}}

TargetStart ==
    /\ week_start \in TargetWeekStarts
    /\ week_end = week_start + 6
    /\ mf_nutrition \in TargetMacroFactor
    /\ weekly_mileage = R(0)
    /\ nutrition = None

(***************************************************************************)
(* strength.py                                                             *)
(***************************************************************************)
PRIORITY_MUSCLE_GROUPS == <<"Glutes", "Hips", "Core", "Hamstrings">>

VOLUME_DROP_PCT == Rat(25, 100)

REGRESSION_FACTOR == Rat(95, 100)

\* name.lower() of the muscle-group names modelled, as characters
LowerChars(name) ==
    CASE name = "Glutes" -> <<"g", "l", "u", "t", "e", "s">>
      [] name = "Hips" -> <<"h", "i", "p", "s">>
      [] name = "Core" -> <<"c", "o", "r", "e">>
      [] name = "Hamstrings" -> <<"h", "a", "m", "s", "t", "r", "i", "n", "g", "s">>
      [] name = "core (abs)" -> <<"c", "o", "r", "e", " ", "(", "a", "b", "s", ")">>
      [] name = "Hip Flexors" -> <<"h", "i", "p", " ", "f", "l", "e", "x", "o", "r", "s">>

\* the match by equal names
LowerSame(mg, col) == LowerChars(mg) = LowerChars(col)

\* mg.lower() in col.lower()
LowerIn(mg, col) ==
    LET Within(a, b) == \E i \in 0..(Len(b) - Len(a)) : SubSeq(b, i + 1, i + Len(a)) = a
    IN  Within(LowerChars(mg), LowerChars(col))

\* the columns of a table with their skipna sums over the rows, positive only
PositiveSums(columns, rows) ==
    Flatten(Map(columns, LAMBDA col :
        LET Entry(s) == IF RatGT(s, R(0)) THEN <<<<col, s>>>> ELSE <<>>
        IN  Entry(SumSkipNa(Column(rows, col)))))

\* _week_sets
WeekSets(muscle_df, start, end) ==
    PositiveSums(muscle_df.columns, WeekSlice(muscle_df.rows, start, end))

\* _week_heaviest
WeekHeaviest(heaviest_df, start, end) ==
    LET Heaviest(window) ==
            IF window = <<>> THEN <<>>
            ELSE Flatten(Map(heaviest_df.columns, LAMBDA col :
                    LET Entry(m) ==
                            IF ~IsNaN(m) /\ RatGT(m, R(0)) THEN <<<<col, m>>>> ELSE <<>>
                    IN  Entry(MaxSkipNa(Column(window, col)))))
    IN  Heaviest(WeekSlice(heaviest_df.rows, start, end))

\* _week_volume
WeekVolume(volume_df, start, end) ==
    PositiveSums(volume_df.columns, WeekSlice(volume_df.rows, start, end))

\* _workout_days
WorkoutDays(muscle_df, start, end) ==
    Len(SelectSeq(WeekSlice(muscle_df.rows, start, end), LAMBDA row :
            RatGT(SumSkipNa(Map(muscle_df.columns, LAMBDA col : row.v[col])), R(0))))

StrengthWeekStats(ws, we) ==
    [week_start |-> ws,
     week_end |-> we,
     workout_days |-> 0,
     sets_by_muscle |-> <<>>,
     heaviest_by_exercise |-> <<>>,
     volume_by_exercise |-> <<>>]

\* the window of the i-th pass of the rolling loop
StrengthPriorWindow(ws, i) ==
    LET w_end == ws - (1 + 7 * (i - 1))
        w_start == w_end - 6
    IN  <<w_start, w_end>>

\* the orders in which a Python set of these keys can be iterated
Orders(S) ==
    {p \in [1..Cardinality(S) -> S] : \A i, j \in 1..Cardinality(S) : i # j => p[i] # p[j]}

\* the keys of all the dicts of a list
AllKeys(dicts) == UNION {DictKeys(dicts[i]) : i \in 1..Len(dicts)}

\* f"{x:.0f}"
Fmt0f(x) == ToString(PyRound(x))

\* f"{ex}: {prior_max:.0f} → {cur_max:.0f} lbs"
OverloadEntry(ex, prior_max, cur_max) ==
    ex \o ": " \o Fmt0f(prior_max) \o " → " \o Fmt0f(cur_max) \o " lbs"

IsPR(cur_max, prior_max) == RatGT(cur_max, prior_max)

IsRegressionAnyDrop(cur_max, prior_max) ==
    ~IsPR(cur_max, prior_max) /\ RatLT(cur_max, prior_max)

IsRegression(cur_max, prior_max) ==
    ~IsPR(cur_max, prior_max) /\ RatLT(cur_max, RatMul(prior_max, REGRESSION_FACTOR))

\* the mean of the prior weekly maxima
PriorBestMean(vals) == Mean(vals)

\* max(vals): the best prior max
PriorBest(vals) == RatMax(vals)

\* a drop of a quarter flagged as well
DropFlaggedAtLeast(drop_pct) == RatGE(drop_pct, VOLUME_DROP_PCT)

\* if drop_pct > 0.25
DropFlagged(drop_pct) == RatGT(drop_pct, VOLUME_DROP_PCT)

\* analyze; mg_order and ex_order are the iteration orders of the two sets
StrengthAnalyzeOf(mf_data, ws, we, mg_order, ex_order) ==
    LET muscle_df == mf_data.muscle_groups
        heaviest_df == mf_data.exercises_heaviest
        volume_df == mf_data.exercises_volume
        Window(i) == StrengthPriorWindow(ws, i)
        ValsOf(dicts, k) ==
            Flatten(Map(dicts, LAMBDA d : IF DictHas(d, k) THEN <<DictGet(d, k)>> ELSE <<>>))
        PriorAvg(prior_sets_list, prior_heaviest_list) ==
            [StrengthWeekStats(ws, we) EXCEPT
                !.sets_by_muscle =
                    Map(mg_order, LAMBDA mg : <<mg, Mean(ValsOf(prior_sets_list, mg))>>),
                !.heaviest_by_exercise =
                    Flatten(Map(ex_order, LAMBDA ex :
                        LET Best(vals) ==
                                IF vals # <<>> THEN <<<<ex, PriorBest(vals)>>>> ELSE <<>>
                        IN  Best(SelectSeq(ValsOf(prior_heaviest_list, ex),
                                           LAMBDA x : RatGT(x, R(0))))))]
        Result(current, prior_avg) ==
            LET Overload(Test(_, _)) ==
                    Flatten(Map(current.heaviest_by_exercise, LAMBDA e :
                        IF DictHas(prior_avg.heaviest_by_exercise, e[1])
                           /\ Test(e[2], DictGet(prior_avg.heaviest_by_exercise, e[1]))
                        THEN <<OverloadEntry(e[1],
                                             DictGet(prior_avg.heaviest_by_exercise, e[1]),
                                             e[2])>>
                        ELSE <<>>))
                CurSets(mg) ==
                    IF DictHas(current.sets_by_muscle, mg)
                    THEN DictGet(current.sets_by_muscle, mg)
                    ELSE R(0)
                DropFlag(mg, avg_sets, drop_pct) ==
                    IF RatGT(avg_sets, R(0)) /\ DropFlagged(drop_pct)
                    THEN <<<<mg, Round1(RatMul(drop_pct, R(100)))>>>>
                    ELSE <<>>
            IN  [current |-> current,
                 prior_4wk_avg |-> prior_avg,
                 pr_exercises |-> Overload(IsPR),
                 regression_exercises |-> Overload(IsRegression),
                 missed_muscle_groups |->
                     SelectSeq(PRIORITY_MUSCLE_GROUPS, LAMBDA mg :
                         ~\E col \in DictKeys(current.sets_by_muscle) : LowerIn(mg, col)),
                 volume_drop_flags |->
                     Flatten(Map(prior_avg.sets_by_muscle, LAMBDA e :
                         DropFlag(e[1], e[2],
                                  RatDiv(RatSub(e[2], CurSets(e[1])), e[2]))))]
    IN  Result([StrengthWeekStats(ws, we) EXCEPT
                   !.workout_days = WorkoutDays(muscle_df, ws, we),
                   !.sets_by_muscle = WeekSets(muscle_df, ws, we),
                   !.heaviest_by_exercise = WeekHeaviest(heaviest_df, ws, we),
                   !.volume_by_exercise = WeekVolume(volume_df, ws, we)],
               PriorAvg([i \in 1..4 |-> WeekSets(muscle_df, Window(i)[1], Window(i)[2])],
                        [i \in 1..4 |->
                            WeekHeaviest(heaviest_df, Window(i)[1], Window(i)[2])]))
(***************************************************************************)
(* MacroFactor data the strength analyzer is run on                        *)
(***************************************************************************)
MuscleColumns == <<"Glutes", "core (abs)", "Hip Flexors", "Hamstrings", "Hips">>

\* a logged day of the muscle-group table: the sets of each column
MuscleProfiles ==
    <<<<Some(R(8)), Some(R(6)), None, None, None>>,
      <<Some(R(6)), Some(R(6)), Some(R(3)), None, None>>,
      <<Some(R(5)), None, None, None, None>>,
      <<Some(R(0)), Some(R(0)), Some(R(0)), Some(R(0)), Some(R(0))>>,
      <<Some(R(4)), Some(R(7)), None, None, None>>,
      <<Some(R(8)), Some(R(6)), None, Some(R(4)), Some(R(2))>>,
      <<Some(R(6)), None, None, None, None>>>>

MuscleRow(day, k) ==
    [date |-> Some(day),
     v |-> [c \in {MuscleColumns[i] : i \in 1..Len(MuscleColumns)} |->
              MuscleProfiles[k][CHOOSE i \in 1..Len(MuscleColumns) : MuscleColumns[i] = c]]]

\* the muscle profile logged on the Monday of each of the four weeks before
\* day 0 (0: nothing logged), and whether day -29 is logged too
MuscleHistories ==
    {<<0, 0, 0, 0>>, <<1, 1, 1, 1>>, <<1, 0, 0, 0>>, <<1, 5, 1, 5>>, <<0, 0, 0, 1>>,
     <<4, 0, 0, 2>>}

\* the muscle profiles logged on day 0, day 1, ...
MuscleCurrents == {<<>>, <<1>>, <<2>>, <<3>>, <<4>>, <<6>>, <<3, 3>>, <<1, 4, 2>>,
                   <<7>>}

MuscleTable(history, current, before) ==
    [columns |-> MuscleColumns,
     rows |->
        (IF before THEN <<MuscleRow(-29, 1)>> ELSE <<>>)
        \o Flatten([i \in 1..4 |->
              IF history[5 - i] = 0 THEN <<>>
              ELSE <<MuscleRow(0 - 7 * (5 - i), history[5 - i])>>])
        \o [i \in 1..Len(current) |-> MuscleRow(i - 1, current[i])]]

ExerciseColumns == <<"Bench Press", "Squat">>

ExerciseRow(day, bench, squat) ==
    [date |-> Some(day),
     v |-> [c \in {"Bench Press", "Squat"} |-> IF c = "Bench Press" THEN bench ELSE squat]]

\* the bench press maxima of the four weeks before day 0 (None: not logged)
BenchHistories ==
    {<<None, None, None, None>>,
     <<Some(R(135)), None, None, None>>,
     <<Some(R(100)), None, None, Some(R(135))>>,
     <<Some(R(0)), None, None, None>>,
     <<Some(Rat(265, 2)), Some(R(120)), None, None>>}

BenchCurrents ==
    {None, Some(R(140)), Some(R(135)), Some(Rat(513, 4)), Some(R(128)), Some(R(129)),
     Some(R(0))}

\* the squat maximum of the week before day 0, and of the week of day 0
SquatPairs ==
    {<<None, Some(R(200))>>, <<Some(R(190)), Some(R(200))>>,
     <<Some(R(250)), Some(R(200))>>, <<Some(R(200)), None>>}

HeaviestTable(history, bench, squat) ==
    [columns |-> ExerciseColumns,
     rows |->
        Flatten([i \in 1..4 |->
            LET w == 5 - i
                b == history[w]
                s == IF w = 1 THEN squat[1] ELSE None
            IN  IF b = None /\ s = None THEN <<>>
                ELSE <<ExerciseRow(0 - 7 * w + 3, b, s)>>])
        \o (IF bench = None /\ squat[2] = None THEN <<>>
            ELSE <<ExerciseRow(2, bench, squat[2])>>)]

VolumeTables ==
    {[columns |-> ExerciseColumns, rows |-> <<>>],
     [columns |-> ExerciseColumns,
      rows |-> <<ExerciseRow(0, Some(R(4050)), None), ExerciseRow(6, Some(R(2700)), Some(R(0)))>>]}

NoStrength ==
    [muscle_groups |-> EmptyTable, exercises_heaviest |-> EmptyTable,
     exercises_volume |-> EmptyTable]

\* every muscle-group table with one exercise table, every exercise table
\* with one muscle-group table, and uneven histories of both together
StrengthInputs ==
    {[muscle_groups |-> MuscleTable(h, c, b),
      exercises_heaviest |-> HeaviestTable(<<Some(R(135)), None, None, None>>,
                                           Some(R(140)), <<None, None>>),
      exercises_volume |-> v] :
        h \in MuscleHistories, c \in MuscleCurrents, b \in BOOLEAN, v \in VolumeTables}
    \cup
    {[muscle_groups |-> MuscleTable(<<1, 1, 1, 1>>, <<1>>, FALSE),
      exercises_heaviest |-> HeaviestTable(h, c, s),
      exercises_volume |-> [columns |-> ExerciseColumns, rows |-> <<>>]] :
        h \in BenchHistories, c \in BenchCurrents, s \in SquatPairs}
    \cup
    {[muscle_groups |-> MuscleTable(h, <<1>>, FALSE),
      exercises_heaviest |-> HeaviestTable(b, Some(R(140)), <<Some(R(190)), Some(R(200))>>),
      exercises_volume |-> [columns |-> ExerciseColumns, rows |-> <<>>]] :
        h \in {<<4, 0, 0, 2>>, <<1, 5, 1, 5>>},
        b \in {<<Some(R(100)), None, None, Some(R(135))>>,
               <<Some(Rat(265, 2)), Some(R(120)), None, None>>}}

StrStart ==
    /\ mf_strength \in StrengthInputs
    /\ strength_windows = <<>>
    /\ strength = None

StrIdle ==
    /\ mf_strength = NoStrength
    /\ strength_windows = <<>>
    /\ strength = None

\* strength.analyze(mf_data, week_start, week_end)
StrengthAnalyze ==
    /\ strength = None
    /\ LET windows == [i \in 1..4 |-> StrengthPriorWindow(week_start, i)]
           SetsIn(i) == WeekSets(mf_strength.muscle_groups, windows[i][1], windows[i][2])
           HeaviestIn(i) ==
               WeekHeaviest(mf_strength.exercises_heaviest, windows[i][1], windows[i][2])
       IN  /\ strength_windows' = windows
           /\ \E mg_order \in Orders(AllKeys([i \in 1..4 |-> SetsIn(i)])),
                 ex_order \in Orders(AllKeys([i \in 1..4 |-> HeaviestIn(i)])) :
                 strength' = Some(StrengthAnalyzeOf(mf_strength, week_start, week_end,
                                                    mg_order, ex_order))
    /\ UNCHANGED <<mf_strength, notStr>>

(***************************************************************************)
(* body_comp.py                                                            *)
(***************************************************************************)
GOAL_WEIGHT_LBS == 160

RECALIBRATION_DAYS == 21

KCAL_PER_LB == 3500

\* date(2026, 2, 16), the day numbered 0
TRACKING_RESTART == 0

\* next((c for c in columns if Test(c)), None)
FirstCol(columns, Test(_)) ==
    LET hits == SelectSeq(columns, Test)
    IN  IF hits = <<>> THEN None ELSE Some(Head(hits))

\* _first_valid
FirstValid(cells) ==
    LET First(vals) == IF vals = <<>> THEN None ELSE Some(Head(vals))
    IN  First(DropNa(cells))

\* _last_valid
LastValid(cells) ==
    LET Last(vals) == IF vals = <<>> THEN None ELSE Some(vals[Len(vals)])
    IN  Last(DropNa(cells))

\* a or b
OptOr(a, b) == IF OptTruthy(a) THEN a ELSE b

\* rounding up instead
PyCeil(a) == 0 - ((0 - a.n) \div a.d)

\* int(x): truncation toward zero
PyTrunc(a) == IF a.n >= 0 THEN a.n \div a.d ELSE 0 - ((0 - a.n) \div a.d)

BodyCompAnalysis(ws, we) ==
    [week_start |-> ws,
     week_end |-> we,
     weight_start_lbs |-> None,
     weight_end_lbs |-> None,
     weight_avg_lbs |-> None,
     weight_net_change_lbs |-> None,
     body_fat_pct_latest |-> None,
     trend_weight_start |-> None,
     trend_weight_end |-> None,
     trend_net_change_lbs |-> None,
     trend_direction |-> "flat",
     pounds_to_goal |-> None,
     weekly_rate_lbs |-> None,
     weeks_to_goal |-> None,
     projected_goal_date |-> None,
     weight_rising_despite_deficit |-> FALSE,
     trend_stalled |-> FALSE,
     algorithm_recalibrating |-> FALSE]

\* end - start when both are truthy
NetChange(start, end) ==
    IF OptTruthy(start) /\ OptTruthy(end) THEN Some(RatSub(Val(end), Val(start)))
    ELSE None

\* the flag for any deficit supplied, positive or not
RisingDespiteAnyDeficit(deficit, direction) == deficit # None /\ direction = "up"

\* avg_daily_deficit is not None and avg_daily_deficit > 0
\* and result.trend_direction == "up"
RisingDespiteDeficit(deficit, direction) ==
    /\ deficit # None
    /\ RatGT(Val(deficit), R(0))
    /\ direction = "up"

\* analyze, each step given the values the steps before it computed
BodyCompAnalyzeOf(mf_data, ws, we, deficit) ==
    LET Tables(scale, trend) ==
        LET Cols(has_scale, weight_col, fat_col, trend_col) ==
            LET Series(has_weight, w_series, t_series) ==
                LET Ends(weight_start, weight_end, trend_start, trend_end) ==
                    LET Trended(trend_net) ==
                        LET Rated(direction, current_weight, by_trend) ==
                            LET Projected(has_goal, pounds_to_goal, by_deficit,
                                          weekly_loss) ==
                                LET Result(projects, weeks_to_goal) ==
  [BodyCompAnalysis(ws, we) EXCEPT
    !.weight_start_lbs = weight_start,
    !.weight_end_lbs = weight_end,
    !.weight_avg_lbs = IF has_weight THEN MeanOrNone(w_series) ELSE None,
    !.weight_net_change_lbs = NetChange(weight_start, weight_end),
    !.body_fat_pct_latest =
        IF has_scale /\ IsSome(fat_col)
        THEN LastValid(Column(scale.rows, Val(fat_col)))
        ELSE None,
    !.trend_weight_start = trend_start,
    !.trend_weight_end = trend_end,
    !.trend_net_change_lbs = trend_net,
    !.trend_direction = direction,
    !.trend_stalled = trend_net # None /\ direction = "flat",
    !.pounds_to_goal = IF has_goal THEN Some(pounds_to_goal) ELSE None,
    !.weekly_rate_lbs =
        IF has_goal /\ (by_trend \/ by_deficit) THEN Some(weekly_loss) ELSE None,
    !.weeks_to_goal = IF projects THEN Some(weeks_to_goal) ELSE None,
    !.projected_goal_date =
        IF projects THEN Some(we + PyTrunc(RatMul(weeks_to_goal, R(7)))) ELSE None,
    !.weight_rising_despite_deficit = RisingDespiteDeficit(deficit, direction),
    !.algorithm_recalibrating = we - TRACKING_RESTART <= RECALIBRATION_DAYS]
                                IN  Result(/\ has_goal
                                           /\ by_trend \/ by_deficit
                                           /\ RatGT(weekly_loss, R(0))
                                           /\ RatGT(pounds_to_goal, R(0)),
                                           RatDiv(pounds_to_goal, weekly_loss))
                            IN  Projected(
                                    OptTruthy(current_weight),
                                    RatSub(Val(current_weight), R(GOAL_WEIGHT_LBS)),
                                    ~by_trend /\ OptTruthy(deficit)
                                        /\ RatGT(Val(deficit), R(0)),
                                    IF by_trend THEN RatSub(R(0), Val(trend_net))
                                    ELSE RatDiv(RatMul(Val(deficit), R(7)),
                                                R(KCAL_PER_LB)))
                        IN  Rated(IF trend_net = None THEN "flat"
                                  ELSE IF RatLT(Val(trend_net), Rat(-1, 10)) THEN "down"
                                  ELSE IF RatGT(Val(trend_net), Rat(1, 10)) THEN "up"
                                  ELSE "flat",
                                  OptOr(trend_end, weight_end),
                                  /\ OptTruthy(trend_net)
                                  /\ RatGT(RatAbs(Val(trend_net)), Rat(5, 100)))
                    IN  Trended(NetChange(trend_start, trend_end))
                IN  Ends(FirstValid(w_series), LastValid(w_series),
                         FirstValid(t_series), LastValid(t_series))
            IN  Series(has_scale /\ IsSome(weight_col),
                       IF has_scale /\ IsSome(weight_col)
                       THEN Column(scale.rows, Val(weight_col)) ELSE <<>>,
                       IF trend.rows # <<>> /\ IsSome(trend_col)
                       THEN Column(trend.rows, Val(trend_col)) ELSE <<>>)
            TrendCol(trend_named) ==
                IF IsSome(trend_named) THEN trend_named
                ELSE FirstCol(trend.columns, LAMBDA c : TRUE)
        IN  Cols(scale.rows # <<>>,
                 FirstCol(scale.columns, LAMBDA c : "weight" \in ColumnSubstrings(c)),
                 FirstCol(scale.columns,
                          LAMBDA c : "fat" \in ColumnSubstrings(c)
                                     \/ "pct" \in ColumnSubstrings(c)),
                 TrendCol(FirstCol(trend.columns,
                                   LAMBDA c : "trend" \in ColumnSubstrings(c))))
    IN  Tables(TableWeek(mf_data.scale_weight, ws, we),
               TableWeek(mf_data.weight_trend, ws, we))
(***************************************************************************)
(* signals.py                                                              *)
(***************************************************************************)
\* "".join(chars)
RECURSIVE Join(_)
Join(chars) == IF chars = <<>> THEN "" ELSE Head(chars) \o Join(Tail(chars))

\* ", ".join(names)
RECURSIVE JoinComma(_)
JoinComma(names) ==
    IF names = <<>> THEN ""
    ELSE IF Len(names) = 1 THEN Head(names)
    ELSE Head(names) \o ", " \o JoinComma(Tail(names))

\* the analyzers' float handed to the converters' format_pace
PaceFloat(o) ==
    IF o = None \/ IsNaN(Val(o)) THEN NaN
    ELSE Num(RoundHalfEven(Val(o).n * One, Val(o).d))

PaceText(o) == Join(format_pace(PaceFloat(o)))

\* f"{x:.1f}" of a non-negative float
Fmt1f(x) ==
    LET tenths == RoundHalfEven(x.n * 10, x.d)
    IN  ToString(tenths \div 10) \o "." \o ToString(tenths % 10)

\* f"{s:.0f}" of a standard deviation kept as its square
FmtStd0f(s) ==
    ToString(CHOOSE k \in 0..(s.sq.n + 1) :
                /\ (2 * k - 1) * (2 * k - 1) * s.sq.d <= 4 * s.sq.n
                /\ 4 * s.sq.n < (2 * k + 1) * (2 * k + 1) * s.sq.d)

\* nutrient.replace("_", " ").title()
Display(nutrient) ==
    CASE nutrient = "fiber" -> "Fiber"
      [] nutrient = "iron" -> "Iron"
      [] nutrient = "vitamin_d" -> "Vitamin D"
      [] nutrient = "potassium" -> "Potassium"
      [] nutrient = "magnesium" -> "Magnesium"
      [] nutrient = "sodium" -> "Sodium"
      [] nutrient = "calcium" -> "Calcium"
      [] nutrient = "vitamin_b12" -> "Vitamin B12"
      [] nutrient = "zinc" -> "Zinc"

\* the messages' f-string texts, with {} where a value goes (their dashes
\* written - and --)
AdaptationMessage ==
    "Pace improving ({} → {}/mi) with HR holding steady at {} -- aerobic adaptation confirmed."

FatigueMessage ==
    "Pace slower + HR higher than 4-week avg ({} → {}/mi, HR {} → {}) -- potential fatigue or overtraining."

OverreachMessage ==
    "Weekly mileage is {}% above 4-week average ({} → {} mi) -- injury risk threshold exceeded."

RecoveryDebtMessage ==
    "Average Body Battery drain per run is {} (threshold: 15) -- recovery debt accumulating."

GroundContactMessage ==
    "Ground contact time rising ({} → {} ms, +{} ms) -- possible glute/hip fatigue or form breakdown."

PrMessage ==
    "Progressive overload confirmed: {} exercise(s) hit new max weight this week."

MissedGroupsMessage ==
    "Zero sets logged for priority muscle group(s): {}."

VolumeDropMessage ==
    "{} volume dropped {}% vs. 4-week average."

LowProteinMessage ==
    "Avg daily protein {}g is below the 140g muscle-preservation threshold -- risk of muscle loss during caloric deficit."

CarbUnderfuelMessage ==
    "Avg carbs {}g/day while running {} mi/week -- underfueling risk for performance and recovery."

CalorieVarianceMessage ==
    "Calorie intake std deviation is {} kcal (threshold: 300) -- inconsistent adherence may slow fat loss."

MicronutrientMessage ==
    "{} averaging {}% of daily target -- consider food sources or supplementation."

RisingDespiteDeficitMessage ==
    "Trend weight rising despite a logged caloric deficit -- MacroFactor is still recalibrating from the tracking gap. Maintain consistent logging; the algorithm needs 2-3 more weeks of data."

RecalibratingMessage ==
    "Still within the first 3 weeks post-tracking restart. MacroFactor expenditure estimate (currently ~2,009 kcal) is likely underestimating true TDEE given run volume. Consistency now = faster recalibration."

\* the icons: GOOD is the check mark, WARNING the warning sign
GOOD == "good"

WARNING == "warning"

\* Signal(icon, category, message); the message is the f-string's text and
\* the values as formatted
Signal(icon, category, format, args) ==
    [icon |-> icon, category |-> category,
     message |-> [format |-> format, args |-> args]]

When(cond, signal) == IF cond THEN <<signal>> ELSE <<>>

RunningSignals(run) ==
    LET cur == run.current
        roll == run.rolling_4wk
        Signals(cur_pace, rolling_pace, cur_hr, roll_hr) ==
            When(run.aerobic_adaptation_signal,
                 Signal(GOOD, "Running",
                        AdaptationMessage,
                        <<rolling_pace, cur_pace, cur_hr>>))
            \o When(run.fatigue_signal,
                    Signal(WARNING, "Running",
                           FatigueMessage,
                           <<rolling_pace, cur_pace, roll_hr, cur_hr>>))
            \o When(run.overreach_flag /\ run.mileage_change_pct # None,
                    Signal(WARNING, "Running",
                           OverreachMessage,
                           <<Fmt0f(RatMul(Val(run.mileage_change_pct), R(100))),
                             Fmt1f(roll.total_miles), Fmt1f(cur.total_miles)>>))
            \o When(run.recovery_debt_flag,
                    Signal(WARNING, "Running",
                           RecoveryDebtMessage,
                           <<Fmt0f(OrZero(cur.avg_body_battery_drain))>>))
            \o When(/\ run.ground_contact_change_ms # None
                    /\ RatGT(Val(run.ground_contact_change_ms),
                             R(GROUND_CONTACT_CONCERN_MS)),
                    Signal(WARNING, "Running",
                           GroundContactMessage,
                           <<Fmt0f(OrZero(roll.flat_avg_ground_contact_ms)),
                             Fmt0f(OrZero(cur.flat_avg_ground_contact_ms)),
                             Fmt0f(Val(run.ground_contact_change_ms))>>))
    IN  Signals(PaceText(cur.flat_avg_pace_dec), PaceText(roll.flat_avg_pace_dec),
                Fmt0f(OrZero(cur.flat_avg_hr)), Fmt0f(OrZero(roll.flat_avg_hr)))

StrengthSignals(str) ==
    When(str.pr_exercises # <<>>,
         Signal(GOOD, "Strength",
                PrMessage,
                <<ToString(Len(str.pr_exercises))>>))
    \o When(str.missed_muscle_groups # <<>>,
            Signal(WARNING, "Strength",
                   MissedGroupsMessage,
                   <<JoinComma(str.missed_muscle_groups)>>))
    \o Map(str.volume_drop_flags, LAMBDA e :
            Signal(WARNING, "Strength", VolumeDropMessage,
                   <<e[1], Fmt0f(e[2])>>))

NutritionSignals(nut) ==
    When(nut.low_protein_flag,
         Signal(WARNING, "Nutrition",
                LowProteinMessage,
                <<Fmt0f(OrZero(nut.current.avg_protein_g))>>))
    \o When(nut.low_carb_underfuel_flag,
            Signal(WARNING, "Nutrition",
                   CarbUnderfuelMessage,
                   <<Fmt0f(OrZero(nut.current.avg_carbs_g)), Fmt1f(nut.weekly_mileage)>>))
    \o When(nut.high_calorie_variance_flag,
            Signal(WARNING, "Nutrition",
                   CalorieVarianceMessage,
                   <<FmtStd0f(Val(nut.current.calorie_stdev))>>))
    \o Map(nut.micronutrient_flags, LAMBDA e :
            Signal(WARNING, "Nutrition",
                   MicronutrientMessage,
                   <<Display(e[1]), Fmt0f(e[2])>>))

\* detect with a signal for a stalled trend as well
BodyCompSignalsStalled(body) ==
    When(body.trend_stalled,
         Signal(WARNING, "Body Comp", "Trend weight stalled.", <<>>))
    \o When(body.weight_rising_despite_deficit,
            Signal(WARNING, "Body Comp", RisingDespiteDeficitMessage, <<>>))
    \o When(body.algorithm_recalibrating,
            Signal(WARNING, "Body Comp", RecalibratingMessage, <<>>))

BodyCompSignals(body) ==
    When(body.weight_rising_despite_deficit,
         Signal(WARNING, "Body Comp",
                RisingDespiteDeficitMessage,
                <<>>))
    \o When(body.algorithm_recalibrating,
            Signal(WARNING, "Body Comp",
                   RecalibratingMessage,
                   <<>>))

DetectNutritionFirst(run, str, nut, body) ==
    RunningSignals(run) \o NutritionSignals(nut) \o StrengthSignals(str)
        \o BodyCompSignals(body)

detect(run, str, nut, body) ==
    RunningSignals(run) \o StrengthSignals(str) \o NutritionSignals(nut)
        \o BodyCompSignals(body)

(***************************************************************************)
(* The analyses signals.detect is run on: what the four analyzers return   *)
(* for one week's data, the nutrition analyzer given the running miles of  *)
(* the week and the body composition analyzer the nutrition deficit        *)
(***************************************************************************)
\* a table's rows, each date k days later
ShiftRows(rows, k) ==
    Map(rows, LAMBDA row :
        [row EXCEPT !.date = IF IsSome(row.date) THEN Some(Val(row.date) + k) ELSE None])

ShiftTable(df, k) == [columns |-> df.columns, rows |-> ShiftRows(df.rows, k)]

\* the analysed weeks: the week of the tracking restart, and three weeks on
SignalWeekStarts == {0, 21}

SignalActivityTables ==
    {ActivityTable(<<h, h, h, h>>, c) :
        h \in {<<<<Some(0), "Flat20">>>>, <<<<Some(6), "Flat22">>>>},
        c \in {<<<<Some(0), "Flat20">>>>,
               <<<<Some(6), "Flat22">>>>,
               <<<<Some(0), "Flat20">>, <<Some(6), "Trail3">>>>,
               <<<<Some(0), "Flat20">>, <<Some(6), "Flat22">>>>}}

SignalMacroFactor ==
    {[targets |-> NoMacroFactor.targets,
      calories_macros |->
          [columns |-> <<"calories", "protein_g", "carbs_g", "fat_g">>,
           rows |-> [i \in 1..Len(p) |->
                       RowOf(<<"calories", "protein_g", "carbs_g", "fat_g">>, i - 1,
                             DayProfiles[p[i]])]],
      expenditure |->
          [columns |-> <<"expenditure">>,
           rows |-> <<RowOf(<<"expenditure">>, 0, [expenditure |-> Some(R(2009))])>>],
      micronutrients |-> m] :
        p \in {<<>>, <<2>>, <<1, 6>>, <<2, 6>>},
        m \in {x \in MicroTables : Len(x.rows) \in {0, 2}}}

SignalStrength ==
    {[muscle_groups |-> MuscleTable(h, c, FALSE),
      exercises_heaviest |-> HeaviestTable(<<Some(R(135)), None, None, None>>, b,
                                           <<None, None>>),
      exercises_volume |-> [columns |-> ExerciseColumns, rows |-> <<>>]] :
        h \in {<<1, 1, 1, 1>>, <<4, 0, 0, 2>>},
        c \in {<<3>>, <<6>>},
        b \in {Some(R(140)), Some(R(120))}}

WeightRow(day, weight, fat) ==
    [date |-> Some(day), v |-> [c \in {"weight", "body_fat_pct"} |->
                                   IF c = "weight" THEN weight ELSE fat]]

TrendRow(day, trend) == [date |-> Some(day), v |-> [c \in {"trend_weight"} |-> trend]]

\* the trend weights of day 0 and day 6
TrendPairs ==
    {<<>>,
     <<Some(R(180)), Some(R(181))>>,
     <<Some(R(180)), Some(R(180))>>,
     <<Some(R(180)), Some(R(179))>>}

SignalBody ==
    {[scale_weight |->
          [columns |-> <<"weight", "body_fat_pct">>,
           rows |-> <<WeightRow(0, Some(R(181)), Some(R(20))),
                      WeightRow(6, Some(R(180)), None)>>],
      weight_trend |->
          [columns |-> <<"trend_weight">>,
           rows |-> IF t = <<>> THEN <<>> ELSE <<TrendRow(0, t[1]), TrendRow(6, t[2])>>]] :
        t \in TrendPairs}

NoBody == [scale_weight |-> EmptyTable, weight_trend |-> EmptyTable]

BodyIdle ==
    /\ mf_body = NoBody
    /\ avg_daily_deficit = None
    /\ body_comp = None

SigIdle == signals = None

\* the state in which signals.detect is called: the four analyzers have
\* returned
SigStart ==
    /\ week_start \in SignalWeekStarts
    /\ week_end = week_start + 6
    /\ garmin_raw \in {ShiftRows(t, week_start) : t \in SignalActivityTables}
    /\ run_windows = [i \in 1..NumPriorWeeks |-> RunPriorWindow(week_start, i)]
    /\ running = Some(RunningAnalyzeOf(garmin_raw, week_start, week_end))
    /\ mf_nutrition \in
           {[targets |-> m.targets,
             calories_macros |-> ShiftTable(m.calories_macros, week_start),
             expenditure |-> ShiftTable(m.expenditure, week_start),
             micronutrients |-> ShiftTable(m.micronutrients, week_start)] :
               m \in SignalMacroFactor}
    /\ weekly_mileage = Val(running).current.total_miles
    /\ nutrition = Some(NutritionAnalyzeOf(mf_nutrition, week_start, week_end,
                                           weekly_mileage))
    /\ mf_strength \in
           {[muscle_groups |-> ShiftTable(m.muscle_groups, week_start),
             exercises_heaviest |-> ShiftTable(m.exercises_heaviest, week_start),
             exercises_volume |-> ShiftTable(m.exercises_volume, week_start)] :
               m \in SignalStrength}
    /\ strength_windows = [i \in 1..4 |-> StrengthPriorWindow(week_start, i)]
    /\ \E mg_order \in
              Orders(AllKeys([i \in 1..4 |->
                  WeekSets(mf_strength.muscle_groups, strength_windows[i][1],
                           strength_windows[i][2])])),
          ex_order \in
              Orders(AllKeys([i \in 1..4 |->
                  WeekHeaviest(mf_strength.exercises_heaviest, strength_windows[i][1],
                               strength_windows[i][2])])) :
          strength = Some(StrengthAnalyzeOf(mf_strength, week_start, week_end,
                                            mg_order, ex_order))
    /\ mf_body \in
           {[scale_weight |-> ShiftTable(m.scale_weight, week_start),
             weight_trend |-> ShiftTable(m.weight_trend, week_start)] :
               m \in SignalBody}
    /\ avg_daily_deficit = Val(nutrition).avg_daily_deficit
    /\ body_comp = Some(BodyCompAnalyzeOf(mf_body, week_start, week_end,
                                          avg_daily_deficit))
    /\ signals = None

\* signals.detect(running, strength, nutrition, body_comp)
Detect ==
    /\ signals = None
    /\ running # None /\ strength # None /\ nutrition # None /\ body_comp # None
    /\ signals' = Some(detect(Val(running), Val(strength), Val(nutrition),
                              Val(body_comp)))
    /\ UNCHANGED notSig

(***************************************************************************)
(* Weeks and MacroFactor data the body composition analyzer is run on      *)
(***************************************************************************)
\* the first days of the analysed weeks: four weeks before the tracking
\* restart, the restart week, and the weeks ending 21 and 22 days after it
BodyWeekStarts == {-28, 0, 15, 16}

\* scale weights of the week's first and last day: none, above the goal, at
\* the goal, below it
ScalePairs ==
    {<<>>,
     <<Some(R(181)), Some(R(180))>>,
     <<Some(R(161)), Some(R(160))>>,
     <<Some(R(156)), Some(R(155))>>}

\* trend weights of the week's first and last day: none, a gain and a loss
\* of a pound, of 0.1 lb, of 0.08 lb and of 0.04 lb, and no change
BodyTrendPairs ==
    {<<>>,
     <<Some(R(180)), Some(R(181))>>,
     <<Some(R(180)), Some(R(179))>>,
     <<Some(R(180)), Some(Rat(1801, 10))>>,
     <<Some(R(180)), Some(Rat(1799, 10))>>,
     <<Some(R(180)), Some(Rat(18008, 100))>>,
     <<Some(R(180)), Some(Rat(17992, 100))>>,
     <<Some(R(180)), Some(Rat(17996, 100))>>,
     <<Some(R(180)), Some(R(180))>>}

\* the deficit handed over by the nutrition analyzer
Deficits == {None, Some(R(0)), Some(R(-200)), Some(R(300))}

BodyInputs ==
    {[scale_weight |->
          [columns |-> <<"weight", "body_fat_pct">>,
           rows |-> IF w = <<>> THEN <<>>
                    ELSE <<WeightRow(0, w[1], Some(R(20))), WeightRow(6, w[2], None)>>],
      weight_trend |->
          [columns |-> <<"trend_weight">>,
           rows |-> IF t = <<>> THEN <<>> ELSE <<TrendRow(0, t[1]), TrendRow(6, t[2])>>]] :
        w \in ScalePairs, t \in BodyTrendPairs}

BodyStart ==
    /\ week_start \in BodyWeekStarts
    /\ week_end = week_start + 6
    /\ mf_body \in {[scale_weight |-> ShiftTable(m.scale_weight, week_start),
                     weight_trend |-> ShiftTable(m.weight_trend, week_start)] :
                       m \in BodyInputs}
    /\ avg_daily_deficit \in Deficits
    /\ body_comp = None

\* body_comp.analyze(mf_data, week_start, week_end, avg_daily_deficit)
BodyCompAnalyze ==
    /\ body_comp = None
    /\ body_comp' = Some(BodyCompAnalyzeOf(mf_body, week_start, week_end,
                                           avg_daily_deficit))
    /\ UNCHANGED <<mf_body, avg_daily_deficit, notBody>>

(***************************************************************************)
(* garmin.py: loading the export and the window views                      *)
(***************************************************************************)
\* a missing date (NaT) sorts after every date
DateLE(a, b) == b = None \/ (a # None /\ Val(a) <= Val(b))

\* df.sort_values("date"): ascending, missing dates last; the order among
\* rows of one date is not fixed by the sort
SortValues(df) ==
    {[i \in 1..Len(df) |-> df[p[i]]] : p \in
        {q \in Orders(1..Len(df)) :
            \A i, j \in 1..Len(df) : i < j => DateLE(df[q[i]].date, df[q[j]].date)}}

\* GarminData.week_window
WeekWindow(raw, start, end) == SelectSeq(raw, LAMBDA row : InWindow(row, start, end))

\* GarminData.runs_in_window
RunsInWindow(raw, start, end, trail_only) ==
    LET Trail(df) == IF trail_only THEN SelectSeq(df, LAMBDA row : row.is_trail) ELSE df
    IN  Trail(SelectSeq(Runs(raw), LAMBDA row : InWindow(row, start, end)))

\* the rows of the export before the load: <<date, activity>>, <<>> for a
\* date that does not parse
CsvRowPool ==
    {<<Some(-1), "Flat20">>, <<Some(0), "Trail3">>, <<Some(0), "Ride30">>,
     <<Some(6), "Flat22">>, <<Some(7), "Bare5">>, <<None, "Flat20">>}

\* the longest export
MaxCsvRows == 3

\* exports of up to MaxCsvRows distinct rows, in every file order
CsvFiles ==
    UNION {{f \in [1..n -> CsvRowPool] : \A i, j \in 1..n : i # j => f[i] # f[j]} :
              n \in 0..MaxCsvRows}

\* a scale-weight table with rows around the week and one without a date
ViewBody ==
    [scale_weight |->
        [columns |-> <<"weight", "body_fat_pct">>,
         rows |-> <<WeightRow(-1, Some(R(181)), None), WeightRow(0, Some(R(180)), None),
                    WeightRow(6, Some(R(179)), None), WeightRow(7, Some(R(178)), None),
                    [date |-> None,
                     v |-> [c \in {"weight", "body_fat_pct"} |->
                              IF c = "weight" THEN Some(R(177)) ELSE None]]>>],
     weight_trend |-> EmptyTable]

\* the (start, end) pairs the views are called with
ViewWindows == {<<0, 6>>, <<-7, -1>>, <<1, 7>>, <<0, 0>>}

ViewStart ==
    /\ csv_rows \in CsvFiles
    /\ loaded = FALSE
    /\ window_view = None
    /\ garmin_raw = <<>> /\ run_windows = <<>> /\ running = None
    /\ mf_body = ViewBody /\ avg_daily_deficit = None /\ body_comp = None

\* the export is loaded: garmin_raw is as given
LoadIdle == csv_rows = <<>> /\ loaded = TRUE /\ window_view = None

\* GarminData._load: the cells converted and is_trail derived row by row,
\* then the sort by date
GarminLoad ==
    /\ ~loaded
    /\ loaded' = TRUE
    /\ garmin_raw' \in
          SortValues([i \in 1..Len(csv_rows) |-> ActivityOf(csv_rows[i][2], csv_rows[i][1])])
    /\ UNCHANGED <<csv_rows, window_view, run_windows, running, notLoad>>

\* garmin_data.week_window(start, end)
WeekWindowCall ==
    /\ loaded
    /\ window_view = None
    /\ \E w \in ViewWindows :
          window_view' = Some([view |-> "week_window", start |-> w[1], end |-> w[2],
                               of |-> garmin_raw,
                               rows |-> WeekWindow(garmin_raw, w[1], w[2])])
    /\ UNCHANGED <<csv_rows, loaded, runVars, notLoad>>

\* garmin_data.runs_in_window(start, end, trail_only)
RunsInWindowCall ==
    /\ loaded
    /\ window_view = None
    /\ \E w \in ViewWindows, trail_only \in BOOLEAN :
          window_view' = Some([view |-> IF trail_only THEN "runs_in_window, trail only"
                                        ELSE "runs_in_window",
                               start |-> w[1], end |-> w[2],
                               of |-> IF trail_only
                                      THEN SelectSeq(Runs(garmin_raw), LAMBDA row : row.is_trail)
                                      ELSE Runs(garmin_raw),
                               rows |-> RunsInWindow(garmin_raw, w[1], w[2], trail_only)])
    /\ UNCHANGED <<csv_rows, loaded, runVars, notLoad>>

\* the window of _compute_week_stats(all_runs, week_start, week_end)
ComputeWeekStatsWindow ==
    /\ loaded
    /\ window_view = None
    /\ \E w \in ViewWindows :
          window_view' = Some([view |-> "_compute_week_stats", start |-> w[1], end |-> w[2],
                               of |-> Runs(garmin_raw),
                               rows |-> WeekSlice(Runs(garmin_raw), w[1], w[2])])
    /\ UNCHANGED <<csv_rows, loaded, runVars, notLoad>>

\* _week_slice(scale_df, start, end) of an analyzer
WeekSliceCall ==
    /\ loaded
    /\ window_view = None
    /\ \E w \in ViewWindows :
          window_view' = Some([view |-> "_week_slice", start |-> w[1], end |-> w[2],
                               of |-> mf_body.scale_weight.rows,
                               rows |-> WeekSlice(mf_body.scale_weight.rows, w[1], w[2])])
    /\ UNCHANGED <<csv_rows, loaded, runVars, notLoad>>

(***************************************************************************)
(* Specifications                                                          *)
(***************************************************************************)
InitParse == ParseStart /\ WeekIdle /\ ArgIdle /\ RunIdle /\ NutIdle /\ StrIdle /\ BodyIdle /\ SigIdle
    /\ LoadIdle

SpecParse == InitParse /\ [][NextParse]_vars

InitWeek == ParseIdle /\ WeekStart /\ ArgIdle /\ RunIdle /\ NutIdle /\ StrIdle /\ BodyIdle /\ SigIdle
    /\ LoadIdle

SpecWeek == InitWeek /\ [][WeekOf]_vars

InitRunning == ParseIdle /\ WeekIdle /\ ArgStart /\ RunStart /\ NutIdle /\ StrIdle /\ BodyIdle /\ SigIdle
    /\ LoadIdle

SpecRunning == InitRunning /\ [][RunningAnalyze]_vars

InitRollingCounts == ParseIdle /\ WeekIdle /\ ArgIdle /\ CountedStart /\ NutIdle /\ StrIdle /\ BodyIdle /\ SigIdle
    /\ LoadIdle

SpecRollingCounts == InitRollingCounts /\ [][RunningAnalyze]_vars

InitNutrition == ParseIdle /\ WeekIdle /\ ArgStart /\ RunIdle /\ NutStart /\ StrIdle /\ BodyIdle /\ SigIdle
    /\ LoadIdle

SpecNutrition == InitNutrition /\ [][NutritionAnalyze]_vars

InitStrength == ParseIdle /\ WeekIdle /\ ArgStart /\ RunIdle /\ NutIdle /\ StrStart /\ BodyIdle /\ SigIdle
    /\ LoadIdle

SpecStrength == InitStrength /\ [][StrengthAnalyze]_vars

InitTargets == ParseIdle /\ WeekIdle /\ TargetStart /\ RunIdle /\ StrIdle /\ BodyIdle /\ SigIdle
    /\ LoadIdle

SpecTargets == InitTargets /\ [][NutritionAnalyze]_vars

InitBodyComp == ParseIdle /\ WeekIdle /\ BodyStart /\ RunIdle /\ NutIdle /\ StrIdle /\ SigIdle
    /\ LoadIdle

SpecBodyComp == InitBodyComp /\ [][BodyCompAnalyze]_vars

\* one week's data handed to all three analyzers: for each table none, rows
\* before the week only, and rows in the week
AnalyzerActivityTables ==
    {<<>>,
     ActivityTable(<<<<<<Some(0), "Flat20">>>>, <<>>, <<<<Some(6), "Flat22">>>>, <<>>>>, <<>>),
     ActivityTable(<<<<>>, <<>>, <<>>, <<>>>>, <<<<Some(0), "Flat20">>>>),
     ActivityTable(<<<<<<Some(3), "Bare5">>>>, <<>>, <<>>, <<>>>>,
                   <<<<Some(2), "Trail3">>, <<None, "Flat20">>>>)}

AnalyzerMacroFactor ==
    {NoMacroFactor}
    \cup
    {[targets |-> NoMacroFactor.targets,
      calories_macros |->
          [columns |-> <<"calories", "protein_g", "carbs_g", "fat_g">>,
           rows |-> [i \in 1..Len(days) |->
                       RowOf(<<"calories", "protein_g", "carbs_g", "fat_g">>,
                             days[i], DayProfiles[1])]],
      expenditure |->
          [columns |-> <<"expenditure">>,
           rows |-> [i \in 1..Len(spent) |->
                       RowOf(<<"expenditure">>, spent[i],
                             [expenditure |-> Some(R(2009))])]],
      micronutrients |->
          [columns |-> MicroColumns,
           rows |-> [i \in 1..Len(micro) |->
                       RowOf(MicroColumns, micro[i], MicroProfiles[2])]]] :
        days \in {<<-3>>, <<-1, 0>>}, spent \in {<<>>, <<3>>}, micro \in {<<-2>>, <<0, 1>>}}

AnalyzerStrength ==
    {NoStrength,
     [muscle_groups |-> MuscleTable(<<1, 1, 1, 1>>, <<>>, TRUE),
      exercises_heaviest |-> HeaviestTable(<<Some(R(135)), None, None, None>>, None,
                                           <<Some(R(250)), None>>),
      exercises_volume |-> [columns |-> ExerciseColumns, rows |-> <<>>]],
     [muscle_groups |-> MuscleTable(<<4, 0, 0, 2>>, <<3>>, FALSE),
      exercises_heaviest |-> HeaviestTable(<<None, None, None, None>>, Some(R(140)),
                                           <<None, Some(R(200))>>),
      exercises_volume |->
          [columns |-> ExerciseColumns,
           rows |-> <<ExerciseRow(0, Some(R(4050)), None),
                      ExerciseRow(6, Some(R(2700)), Some(R(0)))>>]]}

InitAnalyzers ==
    /\ ParseIdle /\ WeekIdle /\ ArgStart /\ BodyIdle /\ SigIdle /\ LoadIdle
    /\ garmin_raw \in AnalyzerActivityTables /\ run_windows = <<>> /\ running = None
    /\ mf_nutrition \in AnalyzerMacroFactor /\ weekly_mileage = R(0) /\ nutrition = None
    /\ mf_strength \in AnalyzerStrength /\ strength_windows = <<>> /\ strength = None

NextAnalyzers == RunningAnalyze \/ NutritionAnalyze \/ StrengthAnalyze

SpecAnalyzers == InitAnalyzers /\ [][NextAnalyzers]_vars

InitSignals == ParseIdle /\ WeekIdle /\ SigStart /\ LoadIdle

SpecSignals == InitSignals /\ [][Detect]_vars


InitViews ==
    /\ ParseIdle /\ WeekIdle /\ ArgIdle /\ NutIdle /\ StrIdle /\ SigIdle
    /\ ViewStart

NextViews ==
    \/ GarminLoad
    \/ WeekWindowCall
    \/ RunsInWindowCall
    \/ ComputeWeekStatsWindow
    \/ WeekSliceCall

SpecViews == InitViews /\ [][NextViews]_vars
(***************************************************************************)
(* C1  pace round trip                                                     *)
(***************************************************************************)
\* the cell is minute digits, a colon and two second digits in 00..59
IsPaceForm(c) ==
    /\ c.kind = "str"
    /\ PaceMatch(c.s)
    /\ DigitsToInt(SplitColon(c.s, <<>>)[2], 0) <= 59

\* its minute digits are the decimal numeral of the minute count (no
\* leading zero)
HasCanonicalMinutes(c) ==
    LET mm == SplitColon(c.s, <<>>)[1]
    IN  mm = IntToDigits(DigitsToInt(mm, 0))

EightFifteen == <<"8", ":", "1", "5">>

\* C1 as stated: for every pace string s of the form MM:SS (one or more
\* minute digits, a colon, seconds 00..59), format_pace of the parsed value
\* is exactly s.
C1_RoundTripEveryPaceString ==
    (IsSome(shown) /\ IsPaceForm(cell)) => Val(shown) = cell.s

\* C1 amended: for every pace string s of the form M:SS whose minute digits
\* carry no leading zero and whose seconds are in 00..59, format_pace of the
\* parsed value is exactly s; "8:15" parses to 8.25 and formats back to
\* "8:15".
C1_RoundTripCanonical ==
    /\ (IsSome(shown) /\ IsPaceForm(cell) /\ HasCanonicalMinutes(cell))
           => Val(shown) = cell.s
    /\ (conv = "_pace_to_decimal_minutes" /\ cell = StrCell(EightFifteen))
           => Val(parsed) = Num(8 * One + One \div 4)

C1_Witness ==
    /\ cell = StrCell(EightFifteen)
    /\ parsed = Some(Num(8 * One + One \div 4))
    /\ shown = Some(EightFifteen)

(***************************************************************************)
(* C2  sentinels and unparsable cells                                      *)
(***************************************************************************)
Converters ==
    {"_strip_comma_numeric", "_pace_to_decimal_minutes", "_clean_generic",
     "_parse_duration"}

HasDigit(c) == \E i \in 1..Len(c.s) : c.s[i] \in Digits

HasLetter(c) == \E i \in 1..Len(c.s) : c.s[i] \in {"n", "a"}

\* C2: each of the four converters returns missing (NaN), never 0.0, for
\* "--", "" and "nan"; text that holds no digit or holds a letter cannot be
\* a number and is returned as missing; no converter ends in an error.
C2_SentinelsAndUnparsable ==
    conv \in Converters =>
        /\ Val(parsed).kind \in {"nan", "num"}
        /\ (cell.kind = "str" /\ IsSentinel(cell.s)) => Val(parsed) = NaN
        /\ (cell.kind # "str" \/ ~HasDigit(cell) \/ HasLetter(cell))
               => Val(parsed) = NaN

C2_Witness ==
    /\ conv = "_parse_duration"
    /\ cell = StrCell(<<"1", ":", "a">>)
    /\ parsed = Some(NaN)

(***************************************************************************)
(* C3: for every reference date d, week_of(d) is a pair (start, end) with  *)
(* start a Monday, start <= d <= end, end = start + 6 days, and start = d  *)
(* when d is itself a Monday.                                              *)
(***************************************************************************)
C3_WeekWindowTotal ==
    IsSome(week) =>
        LET start == Val(week)[1]
            end == Val(week)[2]
        IN  /\ Weekday(start) = 0
            /\ start <= ref_date
            /\ ref_date <= end
            /\ end = start + 6
            /\ (Weekday(ref_date) = 0 => start = ref_date)

\* Thursday 2026-02-12, four days before day 0, falls in the week of
\* Monday 2026-02-09
C3_Witness == ref_date = -4 /\ week = Some(<<-7, -1>>)

(***************************************************************************)
(* C4: the 4 prior windows the running and the strength analyzer generate  *)
(* for a week_start are each 7 days long, pairwise disjoint, contiguous    *)
(* (each ends the day before the previous one starts), all strictly        *)
(* earlier than week_start, and together cover exactly the 28 days before  *)
(* week_start.                                                             *)
(***************************************************************************)
DaysOf(w) == w[1]..w[2]

PriorWindowsTile(w, ws) ==
    /\ Len(w) = 4
    /\ \A i \in 1..4 :
        /\ w[i][2] = ws - (1 + 7 * (i - 1))
        /\ w[i][1] = w[i][2] - 6
        /\ Cardinality(DaysOf(w[i])) = 7
        /\ w[i][2] < ws
    /\ \A i, j \in 1..4 : i # j => DaysOf(w[i]) \cap DaysOf(w[j]) = {}
    /\ \A i \in 1..3 : w[i + 1][2] = w[i][1] - 1
    /\ UNION {DaysOf(w[i]) : i \in 1..4} = (ws - 28)..(ws - 1)

C4_PriorWindowsTile ==
    /\ run_windows # <<>> => PriorWindowsTile(run_windows, week_start)
    /\ strength_windows # <<>> => PriorWindowsTile(strength_windows, week_start)

C4_Witness ==
    /\ week_start = 1
    /\ run_windows = <<<<-6, 0>>, <<-13, -7>>, <<-20, -14>>, <<-27, -21>>>>
    /\ strength_windows = run_windows

(***************************************************************************)
(* C5: a table with zero rows inside the window gives, without error, zero *)
(* counts and absent (None) averages, never zero averages: running has     *)
(* run_count = flat_run_count = trail_run_count = 0 and every flat_avg_*   *)
(* and body-battery field None; nutrition has logged_days = 0 and every    *)
(* average of the table, calorie_stdev and both adherence rates None;      *)
(* strength has workout_days = 0 and empty sets, heaviest and volume maps. *)
(***************************************************************************)
NoRowsInWindow(rows) == WeekSlice(rows, week_start, week_end) = <<>>

C5_RunningEmpty ==
    IsSome(running) /\ NoRowsInWindow(Runs(garmin_raw)) =>
        LET cur == Val(running).current
        IN  /\ cur.run_count = 0
            /\ cur.flat_run_count = 0
            /\ cur.trail_run_count = 0
            /\ cur.flat_avg_pace_dec = None
            /\ cur.flat_avg_hr = None
            /\ cur.flat_avg_cadence = None
            /\ cur.flat_avg_aerobic_te = None
            /\ cur.flat_avg_ground_contact_ms = None
            /\ cur.avg_body_battery_drain = None
            /\ cur.max_body_battery_drain = None

C5_NutritionEmpty ==
    IsSome(nutrition) =>
        LET res == Val(nutrition)
            cur == res.current
        IN  /\ NoRowsInWindow(mf_nutrition.calories_macros.rows) =>
                /\ cur.logged_days = 0
                /\ cur.avg_calories = None
                /\ cur.avg_protein_g = None
                /\ cur.avg_carbs_g = None
                /\ cur.avg_fat_g = None
                /\ cur.calorie_stdev = None
                /\ res.protein_hit_rate = None
                /\ res.calorie_target_rate = None
            /\ NoRowsInWindow(mf_nutrition.expenditure.rows) => cur.avg_expenditure = None
            /\ NoRowsInWindow(mf_nutrition.micronutrients.rows) =>
                cur.avg_fiber_g = None /\ cur.avg_micronutrients = <<>>

C5_StrengthEmpty ==
    IsSome(strength) =>
        LET cur == Val(strength).current
        IN  /\ NoRowsInWindow(mf_strength.muscle_groups.rows) =>
                cur.workout_days = 0 /\ cur.sets_by_muscle = <<>>
            /\ NoRowsInWindow(mf_strength.exercises_heaviest.rows) =>
                cur.heaviest_by_exercise = <<>>
            /\ NoRowsInWindow(mf_strength.exercises_volume.rows) =>
                cur.volume_by_exercise = <<>>

C5_MissingSafeAggregation == C5_RunningEmpty /\ C5_NutritionEmpty /\ C5_StrengthEmpty

\* all three analyzers have returned, the activity table has runs, none of
\* them in the window
C5_Witness ==
    /\ IsSome(running) /\ IsSome(nutrition) /\ IsSome(strength)
    /\ Runs(garmin_raw) # <<>>
    /\ NoRowsInWindow(Runs(garmin_raw))
    /\ NoRowsInWindow(mf_nutrition.calories_macros.rows)
    /\ NoRowsInWindow(mf_strength.muscle_groups.rows)
    /\ Val(running).current.run_count = 0
    /\ Val(nutrition).current.logged_days = 0
    /\ Val(strength).current.workout_days = 0

(***************************************************************************)
(* C6: low_carb_underfuel_flag is set if and only if the week's average    *)
(* carbs is present and strictly below 80 g and weekly_mileage is strictly *)
(* above 30; 80 g or 30 miles never sets it, and an average of 0 g with    *)
(* mileage above 30 does.                                                  *)
(***************************************************************************)
C6_CarbUnderfuelBoundary ==
    IsSome(nutrition) =>
        LET res == Val(nutrition)
            carbs == res.current.avg_carbs_g
        IN  /\ res.low_carb_underfuel_flag <=>
                (/\ IsSome(carbs)
                 /\ RatLT(Val(carbs), R(80))
                 /\ RatGT(weekly_mileage, R(30)))
            /\ carbs = Some(R(80)) => ~res.low_carb_underfuel_flag
            /\ weekly_mileage = R(30) => ~res.low_carb_underfuel_flag
            /\ carbs = Some(R(0)) /\ RatGT(weekly_mileage, R(30)) =>
                res.low_carb_underfuel_flag

C6_Witness ==
    /\ IsSome(nutrition)
    /\ Val(nutrition).current.avg_carbs_g = Some(R(0))
    /\ weekly_mileage = Rat(61, 2)
    /\ Val(nutrition).low_carb_underfuel_flag

(***************************************************************************)
(* C7: mileage_change_pct = (current total miles - rolling total miles) /  *)
(* rolling total miles whenever the rolling total is positive, and None    *)
(* with overreach_flag False when the rolling total is zero;               *)
(* overreach_flag is True if and only if mileage_change_pct is strictly    *)
(* greater than 0.10 (rolling 20 and current 23 give 0.15 and True;        *)
(* exactly +10% gives False).                                              *)
(***************************************************************************)
C7_Overreach ==
    IsSome(running) =>
        LET res == Val(running)
            cur == res.current.total_miles
            roll == res.rolling_4wk.total_miles
            pct == res.mileage_change_pct
        IN  /\ RatGT(roll, R(0)) => pct = Some(RatDiv(RatSub(cur, roll), roll))
            /\ roll = R(0) => pct = None /\ ~res.overreach_flag
            /\ res.overreach_flag <=> (IsSome(pct) /\ RatGT(Val(pct), Rat(1, 10)))
            /\ roll = R(20) /\ cur = R(23) => pct = Some(Rat(15, 100)) /\ res.overreach_flag
            /\ pct = Some(Rat(1, 10)) => ~res.overreach_flag

\* rolling 20 miles, current 22 miles: exactly +10%
C7_Witness ==
    /\ IsSome(running)
    /\ Val(running).rolling_4wk.total_miles = R(20)
    /\ Val(running).current.total_miles = R(22)
    /\ Val(running).mileage_change_pct = Some(Rat(1, 10))
    /\ ~Val(running).overreach_flag

(***************************************************************************)
(* C8: an exercise with a current-week max and a rolling best is listed in *)
(* pr_exercises if and only if current max > rolling best, and in          *)
(* regression_exercises if and only if current max < 0.95 * rolling best;  *)
(* no exercise is in both lists, one with current max in                   *)
(* [0.95 * best, best] is in neither, and one with no rolling best is in   *)
(* neither (rolling best 135: 140 is a PR listed as                        *)
(* "Bench Press: 135 -> 140 lbs" with an arrow, 128 is a regression).      *)
(***************************************************************************)
InList(list, entry) == \E i \in 1..Len(list) : list[i] = entry

\* the entries a list holds: one per exercise of the current week, in its
\* order, that has a rolling best and passes the test
EntriesWhere(cur, best, Test(_, _)) ==
    Flatten([i \in 1..Len(cur) |->
        IF DictHas(best, cur[i][1]) /\ Test(cur[i][2], DictGet(best, cur[i][1]))
        THEN <<cur[i][1] \o ": " \o ToString(PyRound(DictGet(best, cur[i][1])))
               \o " → " \o ToString(PyRound(cur[i][2])) \o " lbs">>
        ELSE <<>>])

C8_PrAndRegression ==
    IsSome(strength) =>
        LET res == Val(strength)
            cur == res.current.heaviest_by_exercise
            best == res.prior_4wk_avg.heaviest_by_exercise
            bench == <<"Bench Press", R(135)>>
        IN  /\ res.pr_exercises = EntriesWhere(cur, best, LAMBDA c, b : RatGT(c, b))
            /\ res.regression_exercises =
                   EntriesWhere(cur, best,
                                LAMBDA c, b : RatLT(RatMul(c, R(100)), RatMul(b, R(95))))
            /\ \A i \in 1..Len(res.pr_exercises) :
                   ~InList(res.regression_exercises, res.pr_exercises[i])
            /\ Len(res.pr_exercises) + Len(res.regression_exercises) <= Len(cur)
            /\ best = <<>> => res.pr_exercises = <<>> /\ res.regression_exercises = <<>>
            /\ InList(best, bench) /\ InList(cur, <<"Bench Press", R(140)>>) =>
                   InList(res.pr_exercises, "Bench Press: 135 → 140 lbs")
            /\ InList(best, bench) /\ InList(cur, <<"Bench Press", R(128)>>) =>
                   /\ InList(res.regression_exercises, "Bench Press: 135 → 128 lbs")
                   /\ ~InList(res.pr_exercises, "Bench Press: 135 → 128 lbs")

\* best 135 and current 129, inside [0.95 * best, best]: in neither list,
\* while the squat has regressed from 250 to 200
C8_Witness ==
    /\ IsSome(strength)
    /\ InList(Val(strength).prior_4wk_avg.heaviest_by_exercise, <<"Bench Press", R(135)>>)
    /\ InList(Val(strength).current.heaviest_by_exercise, <<"Bench Press", R(129)>>)
    /\ Val(strength).pr_exercises = <<>>
    /\ Val(strength).regression_exercises = <<"Squat: 250 → 200 lbs">>

(***************************************************************************)
(* C9: low_protein_flag is True whenever the week's average protein is     *)
(* present and strictly below 140 g (for every such average, an average of *)
(* 0 g included), and False whenever the average is absent or at least     *)
(* 140 g, whatever the live protein target.                                *)
(***************************************************************************)
C9_LowProteinFlag ==
    IsSome(nutrition) =>
        LET res == Val(nutrition)
            protein == res.current.avg_protein_g
        IN  res.low_protein_flag <=> (IsSome(protein) /\ RatLT(Val(protein), R(140)))

(***************************************************************************)
(* C10: in the list signals.detect returns, every Running signal precedes  *)
(* every Strength signal, every Strength signal every Nutrition signal and *)
(* every Nutrition signal every Body Comp signal; within a category the    *)
(* order is fixed: adaptation, fatigue, overreach, recovery debt, ground   *)
(* contact; PR, missed groups, volume drops; low protein, carb underfuel,  *)
(* calorie variance, micronutrients; rising-despite-deficit,               *)
(* recalibrating.                                                          *)
(***************************************************************************)
SignalOrder ==
    <<<<"Running", AdaptationMessage>>,
      <<"Running", FatigueMessage>>,
      <<"Running", OverreachMessage>>,
      <<"Running", RecoveryDebtMessage>>,
      <<"Running", GroundContactMessage>>,
      <<"Strength", PrMessage>>,
      <<"Strength", MissedGroupsMessage>>,
      <<"Strength", VolumeDropMessage>>,
      <<"Nutrition", LowProteinMessage>>,
      <<"Nutrition", CarbUnderfuelMessage>>,
      <<"Nutrition", CalorieVarianceMessage>>,
      <<"Nutrition", MicronutrientMessage>>,
      <<"Body Comp", RisingDespiteDeficitMessage>>,
      <<"Body Comp", RecalibratingMessage>>>>

\* the place of a signal in the fixed order, 0 if it has none
SignalRank(sig) ==
    IF \E k \in 1..Len(SignalOrder) : SignalOrder[k] = <<sig.category, sig.message.format>>
    THEN CHOOSE k \in 1..Len(SignalOrder) :
            SignalOrder[k] = <<sig.category, sig.message.format>>
    ELSE 0

CategoryRank(category) ==
    CASE category = "Running" -> 1
      [] category = "Strength" -> 2
      [] category = "Nutrition" -> 3
      [] category = "Body Comp" -> 4
      [] OTHER -> 0

\* the signals a week can hold several of: one per muscle group or nutrient
Repeatable(sig) == sig.message.format \in {VolumeDropMessage, MicronutrientMessage}

C10_SignalOrdering ==
    IsSome(signals) =>
        LET list == Val(signals)
        IN  /\ \A i \in 1..Len(list) : SignalRank(list[i]) > 0
            /\ \A i, j \in 1..Len(list) : i < j =>
                /\ CategoryRank(list[i].category) <= CategoryRank(list[j].category)
                /\ SignalRank(list[i]) <= SignalRank(list[j])
                /\ SignalRank(list[i]) = SignalRank(list[j]) => Repeatable(list[i])

\* a list with signals of all four categories, two or more of each of the
\* first three
C10_Witness ==
    /\ IsSome(signals)
    /\ \A c \in {"Running", "Strength", "Nutrition"} :
          Len(SelectSeq(Val(signals), LAMBDA sig : sig.category = c)) >= 2
    /\ \E i \in 1..Len(Val(signals)) : Val(signals)[i].category = "Body Comp"


(***************************************************************************)
(* C11: the number of signals                                              *)
(***************************************************************************)
Count(cond) == IF cond THEN 1 ELSE 0

\* the conditions detect tests, counted from the four analyses
TestedConditions(run, str, nut, body) ==
    Count(run.aerobic_adaptation_signal)
    + Count(run.fatigue_signal)
    + Count(run.overreach_flag /\ run.mileage_change_pct # None)
    + Count(run.recovery_debt_flag)
    + Count(/\ run.ground_contact_change_ms # None
            /\ RatGT(Val(run.ground_contact_change_ms), R(GROUND_CONTACT_CONCERN_MS)))
    + Count(str.pr_exercises # <<>>)
    + Count(str.missed_muscle_groups # <<>>)
    + Len(str.volume_drop_flags)
    + Count(nut.low_protein_flag)
    + Count(nut.low_carb_underfuel_flag)
    + Count(nut.high_calorie_variance_flag)
    + Len(nut.micronutrient_flags)
    + Count(body.weight_rising_despite_deficit)
    + Count(body.algorithm_recalibrating)

\* the flags of the four analyses that are set, a list flag counted once
\* unless it is the volume drops or the micronutrients
TriggeredFlags(run, str, nut, body) ==
    Count(run.overreach_flag)
    + Count(run.fatigue_signal)
    + Count(run.aerobic_adaptation_signal)
    + Count(run.recovery_debt_flag)
    + Count(str.pr_exercises # <<>>)
    + Count(str.regression_exercises # <<>>)
    + Count(str.missed_muscle_groups # <<>>)
    + Len(str.volume_drop_flags)
    + Count(nut.low_protein_flag)
    + Count(nut.low_carb_underfuel_flag)
    + Count(nut.high_calorie_variance_flag)
    + Count(nut.incomplete_week_flag)
    + Len(nut.micronutrient_flags)
    + Count(body.trend_stalled)
    + Count(body.weight_rising_despite_deficit)
    + Count(body.algorithm_recalibrating)

\* C11 (as amended): detect returns one signal for each condition it tests:
\* adaptation, fatigue, overreach with a mileage change, recovery debt, a
\* ground contact rise above the concern threshold, any PR, any missed
\* group, each volume drop, low protein, carb underfuel, high variance, each
\* micronutrient entry, rising despite deficit and recalibrating; regressions,
\* an incomplete week and a stalled trend add no signal
C11_SignalCount ==
    IsSome(signals) =>
        Len(Val(signals)) = TestedConditions(Val(running), Val(strength),
                                             Val(nutrition), Val(body_comp))

\* C11 (as stated): the number of signals is the number of triggered flags
\* among the sixteen the claim lists
C11_SignalCountOfListedFlags ==
    IsSome(signals) =>
        Len(Val(signals)) = TriggeredFlags(Val(running), Val(strength),
                                           Val(nutrition), Val(body_comp))

\* signals of a week with a regression, an incomplete log and a stalled
\* trend, and with a ground contact signal
C11_Witness ==
    /\ IsSome(signals)
    /\ Val(strength).regression_exercises # <<>>
    /\ Val(nutrition).incomplete_week_flag
    /\ Val(body_comp).trend_stalled
    /\ \E i \in 1..Len(Val(signals)) :
          Val(signals)[i].message.format = GroundContactMessage
    /\ Len(Val(signals)) >= 3

(***************************************************************************)
(* C12: the targets of the analysed week                                   *)
(***************************************************************************)
\* the targets in effect on a day: those of the newest settings row made on
\* or before it, the fixed defaults where there is none
TargetsInEffect(settings, day) ==
    get_current_targets(SelectSeq(settings, LAMBDA row : row.effective <= day))

\* C12: the targets nutrition.analyze uses for a week are the live values in
\* effect on the week's last day, the fixed defaults when there are none
C12_TargetsOfWeekEnd ==
    IsSome(nutrition) =>
        LET InEffect(stats, live) ==
                /\ stats.target_calories = live.calories
                /\ stats.target_protein_g = live.protein_g
                /\ stats.target_carbs_g = live.carbs_g
                /\ stats.target_fat_g = live.fat_g
        IN  InEffect(Val(nutrition).current,
                     TargetsInEffect(mf_nutrition.target_settings, week_end))

(***************************************************************************)
(* C13: trend direction and the stalled flag                               *)
(***************************************************************************)
\* the trend weights of the analysed week, blank cells left out
WeekTrend ==
    DropNa(Column(WeekSlice(mf_body.weight_trend.rows, week_start, week_end),
                  "trend_weight"))

\* the direction the claim gives a net change, "flat" for no change known
DirectionOf(change) ==
    IF change = None THEN "flat"
    ELSE IF RatLT(Val(change), Rat(-1, 10)) THEN "down"
    ELSE IF RatGT(Val(change), Rat(1, 10)) THEN "up"
    ELSE "flat"

\* C13: trend_direction is "down" for a net trend change below -0.1 lb, "up"
\* for one above +0.1 lb and "flat" otherwise, and trend_stalled is True
\* exactly when trend_direction is "flat", also with no trend data in the week
C13_TrendDirection ==
    IsSome(body_comp) =>
        /\ Val(body_comp).trend_direction =
               DirectionOf(IF WeekTrend = <<>> THEN None
                           ELSE Some(RatSub(WeekTrend[Len(WeekTrend)], WeekTrend[1])))
        /\ Val(body_comp).trend_stalled <=> Val(body_comp).trend_direction = "flat"

(***************************************************************************)
(* C14: the goal projection                                                *)
(***************************************************************************)
\* the weekly rate the claim describes; known_weight says whether the
\* deficit rule asks for a current weight
ClaimedRate(body, deficit, known_weight) ==
    IF /\ IsSome(body.trend_net_change_lbs)
       /\ RatGT(RatAbs(Val(body.trend_net_change_lbs)), Rat(5, 100))
    THEN Some(RatSub(R(0), Val(body.trend_net_change_lbs)))
    ELSE IF known_weight /\ IsSome(deficit) /\ RatGT(Val(deficit), R(0))
    THEN Some(RatDiv(RatMul(Val(deficit), R(7)), R(KCAL_PER_LB)))
    ELSE None

\* weeks and date are both there or both not, and there only for a positive
\* rate and positive pounds to go, as their quotient and the day it gives
ProjectionOf(body) ==
    /\ IsSome(body.weeks_to_goal) <=> IsSome(body.projected_goal_date)
    /\ IsSome(body.weeks_to_goal) =>
        /\ IsSome(body.weekly_rate_lbs) /\ RatGT(Val(body.weekly_rate_lbs), R(0))
        /\ IsSome(body.pounds_to_goal) /\ RatGT(Val(body.pounds_to_goal), R(0))
        /\ Val(body.weeks_to_goal) =
               RatDiv(Val(body.pounds_to_goal), Val(body.weekly_rate_lbs))
        /\ Val(body.projected_goal_date) =
               body.week_end
               + (RatMul(R(7), Val(body.weeks_to_goal)).n
                  \div RatMul(R(7), Val(body.weeks_to_goal)).d)

\* a current weight is known: a trend end or else a scale end, neither 0
KnownWeight(body) ==
    OptTruthy(body.trend_weight_end) \/ OptTruthy(body.weight_end_lbs)

\* C14 (as amended): the projection is as claimed, and weekly_rate_lbs is the
\* negated trend change when that exceeds 0.05 lb either way, otherwise
\* deficit * 7 / 3500 when a positive deficit was supplied and a current
\* weight is known, otherwise absent
C14_GoalProjection ==
    IsSome(body_comp) =>
        /\ ProjectionOf(Val(body_comp))
        /\ Val(body_comp).weekly_rate_lbs =
               ClaimedRate(Val(body_comp), avg_daily_deficit, KnownWeight(Val(body_comp)))

\* C14 (as stated): the deficit rule gives the rate whenever a positive
\* deficit was supplied
C14_GoalProjectionAnyWeight ==
    IsSome(body_comp) =>
        /\ ProjectionOf(Val(body_comp))
        /\ Val(body_comp).weekly_rate_lbs =
               ClaimedRate(Val(body_comp), avg_daily_deficit, TRUE)

\* a projection by the deficit rule whose days to the goal are not whole
C14_Witness ==
    /\ IsSome(body_comp)
    /\ IsSome(Val(body_comp).projected_goal_date)
    /\ Val(body_comp).trend_net_change_lbs # None
    /\ RatLE(RatAbs(Val(Val(body_comp).trend_net_change_lbs)), Rat(5, 100))
    /\ RatMul(R(7), Val(Val(body_comp).weeks_to_goal)).d > 1

(***************************************************************************)
(* C15: the recalibration flag                                             *)
(***************************************************************************)
\* C15: algorithm_recalibrating is True exactly when the week's last day is
\* at most 21 days from the tracking restart, before it or after it
C15_RecalibrationFlag ==
    IsSome(body_comp) =>
        (Val(body_comp).algorithm_recalibrating
            <=> Abs(week_end - TRACKING_RESTART) <= RECALIBRATION_DAYS)

(***************************************************************************)
(* C16: weight rising despite a deficit                                    *)
(***************************************************************************)
\* C16: weight_rising_despite_deficit is True exactly when a deficit was
\* supplied, it is above zero and trend_direction is "up"; with no deficit,
\* a zero or negative one, or a flat or falling trend it is False
C16_RisingDespiteDeficit ==
    IsSome(body_comp) =>
        /\ Val(body_comp).weight_rising_despite_deficit
              <=> /\ IsSome(avg_daily_deficit)
                  /\ Val(avg_daily_deficit).n > 0
                  /\ Val(body_comp).trend_direction = "up"
        /\ (avg_daily_deficit = None \/ Val(avg_daily_deficit).n <= 0
            \/ Val(body_comp).trend_direction \in {"flat", "down"})
              => ~Val(body_comp).weight_rising_despite_deficit

\* the flag raised: a deficit of 300 kcal and the trend a pound up
C16_Witness ==
    /\ IsSome(body_comp)
    /\ Val(body_comp).weight_rising_despite_deficit
    /\ avg_daily_deficit = Some(R(300))
    /\ WeekTrend = <<R(180), R(181)>>

(***************************************************************************)
(* C17: adherence counts and rates                                         *)
(***************************************************************************)
\* the rows of the macro table inside the analysed week
MacroWeek ==
    SelectSeq(mf_nutrition.calories_macros.rows,
              LAMBDA row : /\ IsSome(row.date)
                           /\ week_start <= Val(row.date)
                           /\ Val(row.date) <= week_end)

\* the days of the week whose cell of a column is filled and passes a test
DaysWhere(column, Test(_)) ==
    Len(SelectSeq(MacroWeek,
                  LAMBDA row : /\ column \in DOMAIN row.v
                               /\ IsSome(row.v[column])
                               /\ Test(Val(row.v[column]))))

C18_Deficit ==
    IsSome(nutrition) =>
        LET Deficit(calories, expenditure, deficit) ==
                IF IsSome(calories) /\ IsSome(expenditure)
                THEN deficit = Some(RatSub(Val(expenditure), Val(calories)))
                ELSE deficit = None
        IN  Deficit(Val(nutrition).current.avg_calories,
                    Val(nutrition).current.avg_expenditure,
                    Val(nutrition).avg_daily_deficit)

(***************************************************************************)
(* C19: the calorie standard deviation                                     *)
(***************************************************************************)
\* the filled calorie cells of the analysed week
WeekCalories ==
    Map(SelectSeq(MacroWeek, LAMBDA row : IsSome(row.v["calories"])),
        LAMBDA row : Val(row.v["calories"]))

\* the population standard deviation (divisor n), kept as its square
PopulationStd(vals) ==
    LET Spread(m) ==
            Sqrt(RatDiv(RatSum(Map(vals, LAMBDA x : RatMul(RatSub(x, m), RatSub(x, m)))),
                        R(Len(vals))))
    IN  Spread(Mean(vals))

\* C19: calorie_stdev is the population standard deviation of the week's
\* calorie values, and high_calorie_variance_flag is True exactly when that
\* is above 300 kcal
C19_CalorieVariance ==
    IsSome(nutrition) /\ WeekCalories # <<>> =>
        /\ Val(nutrition).current.calorie_stdev = Some(PopulationStd(WeekCalories))
        /\ Val(nutrition).high_calorie_variance_flag
              <=> StdGT(PopulationStd(WeekCalories), CALORIE_VARIANCE_CONCERN_STDEV)

(***************************************************************************)
(* C20: trail runs kept out of the flat averages                           *)
(***************************************************************************)
\* a climb of more than 500 ft, a missing ascent being none
ClimbsOver500(row) ==
    IsSome(row.total_ascent_ft) /\ RatGT(Val(row.total_ascent_ft), R(500))

\* the mean of a field over the runs of a window that are no trail runs and
\* have the field filled, None when there is no such run
FlatMean(ws, we, field) ==
    LET MeanOf(rows) ==
            IF rows = <<>> THEN None
            ELSE Some(Mean(Map(rows, LAMBDA row : Val(row[field]))))
    IN  MeanOf(SelectSeq(garmin_raw, LAMBDA row :
                   /\ row.activity_type \in RUNNING_ACTIVITY_TYPES
                   /\ IsSome(row.date) /\ ws <= Val(row.date) /\ Val(row.date) <= we
                   /\ ~ClimbsOver500(row)
                   /\ IsSome(row[field])))

WeekSeparated(stats, ws, we) ==
    /\ stats.flat_run_count + stats.trail_run_count = stats.run_count
    /\ stats.flat_avg_pace_dec = FlatMean(ws, we, "avg_pace")
    /\ stats.flat_avg_hr = FlatMean(ws, we, "avg_hr")
    /\ stats.flat_avg_cadence = FlatMean(ws, we, "avg_cadence")
    /\ stats.flat_avg_aerobic_te = FlatMean(ws, we, "aerobic_te")
    /\ stats.flat_avg_ground_contact_ms = FlatMean(ws, we, "avg_ground_contact_ms")

PriorWeek(i) ==
    ComputeWeekStats(Runs(garmin_raw), run_windows[i][1], run_windows[i][2])

\* the prior weeks, of the four, in which a field is present
WeeksWith(field) == {i \in 1..NumPriorWeeks : IsSome(PriorWeek(i)[field])}

\* the sum of a field over a set of prior weeks
RECURSIVE FieldSum(_, _)
FieldSum(field, weeks) ==
    IF weeks = {} THEN R(0)
    ELSE LET i == CHOOSE w \in weeks : TRUE
         IN  RatAdd(Val(PriorWeek(i)[field]), FieldSum(field, weeks \ {i}))

AveragedFields ==
    {"flat_avg_pace_dec", "flat_avg_hr", "flat_avg_cadence", "flat_avg_aerobic_te",
     "flat_avg_ground_contact_ms", "avg_body_battery_drain"}

\* C22: each averaged field of the rolling baseline is the mean of the field
\* over the prior weeks that have it, a week without it left out of the
\* denominator, and None when none of the four weeks has it
C22_RollingAveragedFields ==
    IsSome(running) =>
        \A field \in AveragedFields :
            Val(running).rolling_4wk[field] =
                IF WeeksWith(field) = {} THEN None
                ELSE Some(RatDiv(FieldSum(field, WeeksWith(field)),
                                 R(Cardinality(WeeksWith(field)))))

\* a baseline over two of the four weeks: one week has no run, one a run
\* without heart rate, the others runs at 150 and 155 bpm
C22_Witness ==
    /\ IsSome(running)
    /\ Val(running).rolling_4wk.flat_avg_hr = Some(Rat(305, 2))
    /\ Cardinality(WeeksWith("flat_avg_hr")) = 2
    /\ \E i \in 1..NumPriorWeeks :
          PriorWeek(i).run_count > 0 /\ PriorWeek(i).flat_avg_hr = None
    /\ \E i \in 1..NumPriorWeeks : PriorWeek(i).run_count = 0

(***************************************************************************)
(* C23: the rolling baseline's counts                                      *)
(***************************************************************************)
\* the runs of the i-th prior week, all of them or the trail runs
PriorRuns(i, trail_only) ==
    Len(SelectSeq(garmin_raw, LAMBDA row :
            /\ row.activity_type \in RUNNING_ACTIVITY_TYPES
            /\ IsSome(row.date)
            /\ run_windows[i][1] <= Val(row.date) /\ Val(row.date) <= run_windows[i][2]
            /\ trail_only => ClimbsOver500(row)))

\* n is the integer nearest to total / 4, the even one of two equally near
NearestToQuarter(n, total) ==
    /\ 2 * Abs(4 * n - total) <= 4
    /\ 2 * Abs(4 * n - total) = 4 => n % 2 = 0

\* C23: the rolling run_count and trail_run_count are the mean of the four
\* prior weeks' counts rounded to the nearest integer, a mean ending in .5
\* going to the even neighbour (2.5 to 2, 3.5 to 4)
C23_RollingCountRounding ==
    IsSome(running) =>
        /\ NearestToQuarter(Val(running).rolling_4wk.run_count,
                            PriorRuns(1, FALSE) + PriorRuns(2, FALSE)
                            + PriorRuns(3, FALSE) + PriorRuns(4, FALSE))
        /\ NearestToQuarter(Val(running).rolling_4wk.trail_run_count,
                            PriorRuns(1, TRUE) + PriorRuns(2, TRUE)
                            + PriorRuns(3, TRUE) + PriorRuns(4, TRUE))

\* prior weeks of 3, 2, 3 and 2 runs: the mean 2.5 gives a rolling count of 2
C23_Witness ==
    /\ IsSome(running)
    /\ <<PriorRuns(1, FALSE), PriorRuns(2, FALSE), PriorRuns(3, FALSE),
         PriorRuns(4, FALSE)>> = <<3, 2, 3, 2>>
    /\ Val(running).rolling_4wk.run_count = 2
    /\ Val(running).rolling_4wk.trail_run_count = 1

\* prior weeks of 4, 3, 4 and 3 runs: the mean 3.5 gives a rolling count of 4
C23_WitnessUp ==
    /\ IsSome(running)
    /\ <<PriorRuns(1, FALSE), PriorRuns(2, FALSE), PriorRuns(3, FALSE),
         PriorRuns(4, FALSE)>> = <<4, 3, 4, 3>>
    /\ Val(running).rolling_4wk.run_count = 4

(***************************************************************************)
(* C24: the denominator of the rolling mileage                             *)
(***************************************************************************)
\* the filled distances of the runs dated in the 28 days before the week
MilesBefore ==
    Map(SelectSeq(garmin_raw, LAMBDA row :
            /\ row.activity_type \in RUNNING_ACTIVITY_TYPES
            /\ IsSome(row.date)
            /\ week_start - 28 <= Val(row.date) /\ Val(row.date) <= week_start - 1
            /\ IsSome(row.distance_mi)),
        LAMBDA row : Val(row.distance_mi))

\* C24: the rolling total_miles is the run distance of the 28 days before
\* week_start divided by 4, a prior week without runs counting 0 miles, and
\* mileage_change_pct is measured against that quarter
C24_RollingMileageDenominator ==
    IsSome(running) =>
        LET Quartered(quarter, current, pct) ==
                /\ Val(running).rolling_4wk.total_miles = quarter
                /\ pct = IF RatGT(quarter, R(0))
                         THEN Some(RatDiv(RatSub(current, quarter), quarter))
                         ELSE None
        IN  Quartered(RatDiv(RatSum(MilesBefore), R(4)),
                      Val(running).current.total_miles,
                      Val(running).mileage_change_pct)

\* one run of 20 miles in the four prior weeks: a baseline of 5 miles, not
\* 20, and a week of 20 miles measured as 300% above it
C24_Witness ==
    /\ IsSome(running)
    /\ MilesBefore = <<R(20)>>
    /\ Val(running).rolling_4wk.total_miles = R(5)
    /\ Val(running).current.total_miles = R(20)
    /\ Val(running).mileage_change_pct = Some(R(3))

(***************************************************************************)
(* C25: the strength baseline                                              *)
(***************************************************************************)
\* the filled cells of a column in the rows of the i-th prior week
PriorCells(df, col, i) ==
    DropNa(Map(SelectSeq(df.rows, LAMBDA row :
                   /\ IsSome(row.date)
                   /\ strength_windows[i][1] <= Val(row.date)
                   /\ Val(row.date) <= strength_windows[i][2]),
               LAMBDA row : row.v[col]))

\* the positive weekly set totals of a muscle group, prior weeks 1 to 4
PositiveTotals(mg) ==
    SelectSeq([i \in 1..4 |-> RatSum(PriorCells(mf_strength.muscle_groups, mg, i))],
              LAMBDA total : RatGT(total, R(0)))

\* the positive weekly maxima of an exercise, prior weeks 1 to 4
PositiveMaxima(ex) ==
    Flatten([i \in 1..4 |->
        LET Positive(cells) ==
                IF cells # <<>> /\ RatGT(RatMax(cells), R(0)) THEN <<RatMax(cells)>>
                ELSE <<>>
        IN  Positive(PriorCells(mf_strength.exercises_heaviest, ex, i))])

\* C25: the rolling heaviest value of an exercise is the largest of its
\* positive weekly maxima of the four prior weeks, so at least each of them;
\* the rolling sets of a muscle group are the mean of its weekly totals
\* over the prior weeks whose total is positive; without a positive value in
\* any of the weeks there is no baseline entry
C25_StrengthBaseline ==
    IsSome(strength) =>
        LET Baseline(prior) ==
                /\ \A ex \in {mf_strength.exercises_heaviest.columns[k] :
                                 k \in 1..Len(mf_strength.exercises_heaviest.columns)} :
                      IF PositiveMaxima(ex) = <<>>
                      THEN ~DictHas(prior.heaviest_by_exercise, ex)
                      ELSE /\ DictHas(prior.heaviest_by_exercise, ex)
                           /\ \E i \in 1..Len(PositiveMaxima(ex)) :
                                 DictGet(prior.heaviest_by_exercise, ex) = PositiveMaxima(ex)[i]
                           /\ \A i \in 1..Len(PositiveMaxima(ex)) :
                                 RatGE(DictGet(prior.heaviest_by_exercise, ex),
                                       PositiveMaxima(ex)[i])
                /\ \A mg \in {mf_strength.muscle_groups.columns[k] :
                                 k \in 1..Len(mf_strength.muscle_groups.columns)} :
                      IF PositiveTotals(mg) = <<>>
                      THEN ~DictHas(prior.sets_by_muscle, mg)
                      ELSE /\ DictHas(prior.sets_by_muscle, mg)
                           /\ DictGet(prior.sets_by_muscle, mg) = Mean(PositiveTotals(mg))
        IN  Baseline(Val(strength).prior_4wk_avg)

\* bench press maxima of 100 and 135 lbs give a baseline of 135; glute sets
\* of 6 in one week and none in another give a baseline of 6; no squat
\* baseline is missing and no hamstring baseline exists
C25_Witness ==
    /\ IsSome(strength)
    /\ PositiveMaxima("Bench Press") = <<R(100), R(135)>>
    /\ DictGet(Val(strength).prior_4wk_avg.heaviest_by_exercise, "Bench Press") = R(135)
    /\ PositiveTotals("Glutes") = <<R(6)>>
    /\ DictGet(Val(strength).prior_4wk_avg.sets_by_muscle, "Glutes") = R(6)
    /\ ~DictHas(Val(strength).prior_4wk_avg.sets_by_muscle, "Hamstrings")

(***************************************************************************)
(* C26: the missed priority groups                                         *)
(***************************************************************************)
\* the lower-cased column name holds the lower-cased group name somewhere
NamesGroup(mg, col) ==
    \E shift \in 0..Len(LowerChars(col)) :
        /\ shift + Len(LowerChars(mg)) <= Len(LowerChars(col))
        /\ \A k \in 1..Len(LowerChars(mg)) :
              LowerChars(col)[shift + k] = LowerChars(mg)[k]

\* the muscle-group columns with a positive set total in the analysed week
TrainedColumns ==
    {col \in {mf_strength.muscle_groups.columns[k] :
                 k \in 1..Len(mf_strength.muscle_groups.columns)} :
        RatGT(RatSum(DropNa(Map(SelectSeq(mf_strength.muscle_groups.rows, LAMBDA row :
                                     /\ IsSome(row.date)
                                     /\ week_start <= Val(row.date)
                                     /\ Val(row.date) <= week_end),
                                 LAMBDA row : row.v[col]))),
              R(0))}

\* C26: a priority group (Glutes, Hips, Core, Hamstrings) is in
\* missed_muscle_groups exactly when no muscle-group column with a positive
\* set total in the analysed week names it, case-insensitively and as a
\* substring; the list keeps the priority order, and a week without strength
\* rows lists all four
C26_MissedPriorityGroups ==
    IsSome(strength) =>
        /\ Val(strength).missed_muscle_groups =
              SelectSeq(<<"Glutes", "Hips", "Core", "Hamstrings">>, LAMBDA mg :
                  ~\E col \in TrainedColumns : NamesGroup(mg, col))
        /\ TrainedColumns = {} =>
              Val(strength).missed_muscle_groups = <<"Glutes", "Hips", "Core", "Hamstrings">>

\* glutes, "core (abs)" and hip flexors trained: the core column counts for
\* Core, the hip flexors do not count for Hips
C26_Witness ==
    /\ IsSome(strength)
    /\ TrainedColumns = {"Glutes", "core (abs)", "Hip Flexors"}
    /\ Val(strength).missed_muscle_groups = <<"Hips", "Hamstrings">>

\* a week without strength rows lists all four groups
C26_WitnessNone ==
    /\ IsSome(strength)
    /\ TrainedColumns = {}
    /\ Val(strength).missed_muscle_groups = <<"Glutes", "Hips", "Core", "Hamstrings">>

(***************************************************************************)
(* C27: the volume-drop flags                                              *)
(***************************************************************************)
\* the set total of a muscle group in the analysed week, 0 without sets
CurrentTotal(mg) ==
    RatSum(DropNa(Map(SelectSeq(mf_strength.muscle_groups.rows, LAMBDA row :
                          /\ IsSome(row.date)
                          /\ week_start <= Val(row.date)
                          /\ Val(row.date) <= week_end),
                      LAMBDA row : row.v[mg])))

\* C27: a muscle group with a positive rolling average is in
\* volume_drop_flags exactly when (rolling - current) / rolling is strictly
\* above 0.25, the current total being 0 for a group without sets in the
\* week (a drop of 100 %); a drop of exactly 25 % is not flagged, and a
\* group without a rolling average is never flagged
C27_VolumeDropFlags ==
    IsSome(strength) =>
        LET Flags(prior, flags) ==
                \A mg \in {mf_strength.muscle_groups.columns[k] :
                              k \in 1..Len(mf_strength.muscle_groups.columns)} :
                    IF DictHas(prior, mg) /\ RatGT(DictGet(prior, mg), R(0))
                    THEN /\ DictHas(flags, mg) <=>
                               RatGT(RatMul(R(4), RatSub(DictGet(prior, mg), CurrentTotal(mg))),
                                     DictGet(prior, mg))
                         /\ RatMul(R(4), RatSub(DictGet(prior, mg), CurrentTotal(mg)))
                               = DictGet(prior, mg) => ~DictHas(flags, mg)
                         /\ (CurrentTotal(mg) = R(0) /\ DictHas(flags, mg)) =>
                               DictGet(flags, mg) = R(100)
                    ELSE ~DictHas(flags, mg)
        IN  Flags(Val(strength).prior_4wk_avg.sets_by_muscle,
                  Val(strength).volume_drop_flags)

\* glutes from a rolling 8 sets to 6 are a drop of exactly 25 % and not
\* flagged; the core from a rolling 6 to no sets at all is flagged with 100;
\* the hamstrings have no rolling average and no flag
C27_Witness ==
    /\ IsSome(strength)
    /\ InList(Val(strength).prior_4wk_avg.sets_by_muscle, <<"Glutes", R(8)>>)
    /\ CurrentTotal("Glutes") = R(6)
    /\ ~DictHas(Val(strength).volume_drop_flags, "Glutes")
    /\ InList(Val(strength).prior_4wk_avg.sets_by_muscle, <<"core (abs)", R(6)>>)
    /\ CurrentTotal("core (abs)") = R(0)
    /\ InList(Val(strength).volume_drop_flags, <<"core (abs)", R(100)>>)
    /\ ~DictHas(Val(strength).prior_4wk_avg.sets_by_muscle, "Hamstrings")
    /\ ~DictHas(Val(strength).volume_drop_flags, "Hamstrings")

(***************************************************************************)
(* C28: the micronutrient flags                                            *)
(***************************************************************************)
\* the nutrient table as the claim states it, targets per day
NutrientTargets ==
    <<<<"fiber", R(25)>>, <<"iron", R(18)>>, <<"vitamin_d", R(15)>>,
      <<"potassium", R(3400)>>, <<"magnesium", R(420)>>, <<"sodium", R(2300)>>,
      <<"calcium", R(1000)>>, <<"vitamin_b12", Rat(24, 10)>>, <<"zinc", R(11)>>>>

\* the filled cells of a nutrient in the micronutrient rows of the week; the
\* export names the fiber column dietary_fiber
NutrientCells(key) ==
    LET CellsOf(col) ==
            IF \E k \in 1..Len(mf_nutrition.micronutrients.columns) :
                  mf_nutrition.micronutrients.columns[k] = col
            THEN DropNa(Map(SelectSeq(mf_nutrition.micronutrients.rows, LAMBDA row :
                                /\ IsSome(row.date)
                                /\ week_start <= Val(row.date)
                                /\ Val(row.date) <= week_end),
                            LAMBDA row : row.v[col]))
            ELSE <<>>
    IN  CellsOf(IF key = "fiber" THEN "dietary_fiber" ELSE key)

\* average / target * 100
PercentOfTarget(t) == RatDiv(RatMul(Mean(NutrientCells(t[1])), R(100)), t[2])

\* C28: a nutrient of the target table whose weekly average is present is in
\* micronutrient_flags exactly when average / target * 100 is strictly below
\* 80; a nutrient without data in the window is never flagged; the recorded
\* value is the percentage rounded to one decimal, which is at most 80.0
C28_MicronutrientFlags ==
    IsSome(nutrition) =>
        LET Flags(flags) ==
                \A k \in 1..Len(NutrientTargets) :
                    LET Flag(t) ==
                            IF NutrientCells(t[1]) = <<>> THEN ~DictHas(flags, t[1])
                            ELSE /\ DictHas(flags, t[1]) <=>
                                       RatLT(PercentOfTarget(t), R(80))
                                 /\ PercentOfTarget(t) = R(80) => ~DictHas(flags, t[1])
                                 /\ DictHas(flags, t[1]) =>
                                       /\ RatLE(RatAbs(RatSub(DictGet(flags, t[1]),
                                                              PercentOfTarget(t))),
                                                Rat(1, 20))
                                       /\ 10 % DictGet(flags, t[1]).d = 0
                                       /\ RatLE(DictGet(flags, t[1]), R(80))
                    IN  Flag(NutrientTargets[k])
        IN  Flags(Val(nutrition).micronutrient_flags)

\* C28 as stated: the recorded value is the percentage itself and is below 80
C28_RecordedBelowEighty ==
    IsSome(nutrition) =>
        LET Flags(flags) ==
                \A k \in 1..Len(NutrientTargets) :
                    LET Flag(t) ==
                            IF NutrientCells(t[1]) = <<>> THEN ~DictHas(flags, t[1])
                            ELSE /\ DictHas(flags, t[1]) <=>
                                       RatLT(PercentOfTarget(t), R(80))
                                 /\ DictHas(flags, t[1]) =>
                                       /\ DictGet(flags, t[1]) = PercentOfTarget(t)
                                       /\ RatLT(DictGet(flags, t[1]), R(80))
                    IN  Flag(NutrientTargets[k])
        IN  Flags(Val(nutrition).micronutrient_flags)

\* fiber at exactly 80 % of 25 g is not flagged, iron at 50 % is recorded as
\* 50.0, sodium at 1839 of 2300 mg (79.96 %) is flagged and recorded as 80.0,
\* and B12 without a value in the week is not flagged
C28_Witness ==
    /\ IsSome(nutrition)
    /\ NutrientCells("fiber") = <<R(20)>>
    /\ NutrientCells("sodium") = <<R(1839)>>
    /\ NutrientCells("vitamin_b12") = <<>>
    /\ Val(nutrition).micronutrient_flags = <<<<"iron", R(50)>>, <<"sodium", R(80)>>>>

(***************************************************************************)
(* C29: window slicing                                                     *)
(***************************************************************************)
\* the rows of a frame dated from start to end, both days included
DatedWithin(df, start, end) ==
    SelectSeq(df, LAMBDA row : /\ row.date # <<>>
                               /\ start <= row.date[1]
                               /\ row.date[1] <= end)

\* C29: every window view (week_window, runs_in_window, the window of the
\* running analyzer and an analyzer's week slice) returns exactly the rows of
\* its frame whose date d has start <= d <= end, both bounds included, and
\* never a row without a date; the loaded activity table holds the rows of
\* the export sorted ascending by date, the rows without a date last
C29_WindowSlicing ==
    /\ IsSome(window_view) =>
          LET Exact(v) ==
                  /\ v.rows = DatedWithin(v.of, v.start, v.end)
                  /\ \A i \in 1..Len(v.rows) :
                        /\ v.rows[i].date # <<>>
                        /\ v.rows[i].date[1] \in v.start..v.end
          IN  Exact(Val(window_view))
    /\ loaded =>
          /\ \A i, j \in 1..Len(garmin_raw) :
                i < j => \/ garmin_raw[j].date = <<>>
                         \/ /\ garmin_raw[i].date # <<>>
                            /\ garmin_raw[i].date[1] <= garmin_raw[j].date[1]
          /\ Len(garmin_raw) = Len(csv_rows)
          /\ \A i \in 1..Len(csv_rows) :
                \E j \in 1..Len(garmin_raw) :
                    garmin_raw[j] = ActivityOf(csv_rows[i][2], csv_rows[i][1])

\* an export listing a run without a date, then one of Sunday day 6, then
\* one of Monday day 0: loaded in the order day 0, day 6, no date, and the
\* week window 0..6 returns the first two
C29_Witness ==
    /\ csv_rows = <<<<None, "Flat20">>, <<Some(6), "Flat22">>, <<Some(0), "Trail3">>>>
    /\ loaded
    /\ garmin_raw = <<Trail3(Some(0)), Flat22(Some(6)), Flat20(None)>>
    /\ IsSome(window_view)
    /\ Val(window_view).view = "week_window"
    /\ Val(window_view).start = 0 /\ Val(window_view).end = 6
    /\ Val(window_view).rows = <<Trail3(Some(0)), Flat22(Some(6))>>

(***************************************************************************)
(* C30: thousands separators                                               *)
(***************************************************************************)
\* the numeric columns of the activity export, by their internal names
NumericColumns ==
    {"distance_mi", "calories", "avg_hr", "max_hr", "aerobic_te", "avg_cadence",
     "max_cadence", "total_ascent_ft", "total_descent_ft", "avg_stride_length",
     "avg_vertical_ratio", "avg_vertical_osc", "avg_ground_contact_ms",
     "normalized_power", "avg_power", "body_battery_drain", "min_elevation_ft",
     "max_elevation_ft"}

\* digits in groups divided by commas, as "8,980"
CommaGrouped(c) ==
    /\ c.kind = "str"
    /\ \E i \in 1..Len(c.s) : c.s[i] = ","
    /\ \A i \in 1..Len(c.s) : c.s[i] \in Digits \cup {","}
    /\ Head(c.s) \in Digits
    /\ \A i \in 1..Len(c.s) :
          c.s[i] = "," => /\ i + 3 <= Len(c.s)
                          /\ \A k \in 1..3 : c.s[i + k] \in Digits
                          /\ (i + 4 <= Len(c.s) => c.s[i + 4] = ",")

\* C30: in every numeric column of the activity export (distance, calories,
\* heart rate, cadence, ascent and descent, power, body-battery drain and
\* the others) a comma-grouped cell such as "8,980" parses to the number
\* without its separators, 8980.0, not to missing
C30_ThousandsSeparators ==
    \A col \in NumericColumns :
        (conv = ConverterOf(col) /\ CommaGrouped(cell)) =>
            Val(parsed) = Num(DigitsToInt(DropCommas(cell.s), 0) * One)

\* the columns listed as comma-formatted do parse such a cell
C30_CommaColumns ==
    \A col \in COMMA_NUMERIC_COLS :
        (conv = ConverterOf(col) /\ CommaGrouped(cell)) =>
            Val(parsed) = Num(DigitsToInt(DropCommas(cell.s), 0) * One)
====
